---- MODULE Spec2Model ----
(***************************************************************************)
(* A model of IRac (src/src/IRac.cpp): the vendor-neutral A/C state facade *)
(* and dispatcher of LightIRremoteESP8266.                                 *)
(*                                                                         *)
(* Conventions                                                             *)
(*  - a stdAc::state_t is a record with the 21 fields of the struct;       *)
(*  - enum values are strings carrying the enumerator's name ("kOff");     *)
(*  - a `const stdAc::state_t *` is a sequence: << >> is NULL, <<s>> is a  *)
(*    pointer to s;                                                        *)
(*  - a float temperature is an exact number of NINTHS of a degree, so     *)
(*    that Fahrenheit -> Celsius ((f - 32) * 5 / 9) is exact on whole      *)
(*    Fahrenheit degrees: 72 F = 648 ninths -> 200 ninths = 22.22.. C.     *)
(*    NaN is not modelled (the data model excludes it).                    *)
(*  - a driver call is a pair <<method, argument>>.                        *)
(***************************************************************************)
EXTENDS Integers, Sequences, FiniteSets, TLC

VARIABLES
  next,     \* IRac::next, the state the caller edits
  _prev,    \* IRac::_prev, the state last marked as sent
  build,    \* the SEND_* flags the build enables (a set of flag names),
            \* and its DECODE_* flags (names that begin with DECODE_)
  op,       \* the operation that ran last
  args,     \* the arguments of that call: for sendAc << >>, <<desired>>
            \* (prev NULL) or <<desired, prev>>
  ret,      \* its boolean return value (FALSE for a void operation)
  result,   \* its other output, as a pointer: the returned state, string
            \* or number, the local `send` of sendAc, or what *result of
            \* decodeToState holds afterwards; << >> when there is none
  calls     \* the calls made on the vendor driver it constructed, in order

vars == <<next, _prev, build, op, args, ret, result, calls>>

----------------------------------------------------------------------------
(* Bounds of the model *)

\* clock values range over -1 .. MaxClock
MaxClock == 0
\* sleep values range over -1 .. MaxSleep
MaxSleep == 1

----------------------------------------------------------------------------
(* Data model: decode_type_t, the stdAc enums and stdAc::state_t *)

\* The case labels of IRac::isProtocolSupported, in source order.
AcProtocols ==
  { "AIRTON", "AIRWELL", "AMCOR", "ARGO", "BOSCH144", "CARRIER_AC64",
    "COOLIX", "CORONA_AC", "DAIKIN", "DAIKIN128", "DAIKIN152", "DAIKIN160",
    "DAIKIN176", "DAIKIN2", "DAIKIN216", "DAIKIN64", "DELONGHI_AC",
    "ECOCLIM", "ELECTRA_AC", "FUJITSU_AC", "GOODWEATHER", "GREE",
    "HAIER_AC", "HAIER_AC160", "HAIER_AC176", "HAIER_AC_YRW02",
    "HITACHI_AC", "HITACHI_AC1", "HITACHI_AC264", "HITACHI_AC296",
    "HITACHI_AC344", "HITACHI_AC424", "KELON", "KELVINATOR", "LG", "LG2",
    "MIDEA", "MIRAGE", "MITSUBISHI_AC", "MITSUBISHI112", "MITSUBISHI136",
    "MITSUBISHI_HEAVY_88", "MITSUBISHI_HEAVY_152", "NEOCLIMA",
    "PANASONIC_AC", "PANASONIC_AC32", "RHOSS", "SAMSUNG_AC", "SANYO_AC",
    "SANYO_AC88", "SHARP_AC", "TCL112AC", "TECHNIBEL_AC", "TECO",
    "TEKNOPOINT", "TOSHIBA_AC", "TRANSCOLD", "TROTEC", "TROTEC_3550",
    "TRUMA", "VESTEL_AC", "VOLTAS", "YORK", "WHIRLPOOL_AC" }

\* decode_type_t: the A/C protocols, UNKNOWN, and one protocol that is no
\* air conditioner (NEC) standing for the rest of the enum.
Protocols == AcProtocols \cup {"UNKNOWN", "NEC"}

\* The SEND_<flag> macro guarding a protocol's case label.
SendFlag(protocol) ==
  CASE protocol = "LG2" -> "LG"
    [] protocol \in {"MITSUBISHI_HEAVY_88", "MITSUBISHI_HEAVY_152"}
         -> "MITSUBISHIHEAVY"
    [] OTHER -> protocol

SendFlags == { SendFlag(p) : p \in AcProtocols }

\* Model codes the dispatcher compares against.
GE6711AR2853M == 1
KKG29AC1 == 2
LG6711A20083V == 5
kPanasonicCkp == 5
kLgAcSwingVMaxVanes == 4

Opmodes == {"kOff", "kAuto", "kCool", "kHeat", "kDry", "kFan"}
Fanspeeds ==
  {"kAuto", "kMin", "kLow", "kMedium", "kMediumHigh", "kHigh", "kMax"}
SwingVs ==
  {"kOff", "kAuto", "kHighest", "kHigh", "kUpperMiddle", "kMiddle", "kLow",
   "kLowest"}
SwingHs ==
  {"kOff", "kAuto", "kLeftMax", "kLeft", "kMiddle", "kRight", "kRightMax",
   "kWide"}
Commands ==
  {"kControlCommand", "kSensorTempReport", "kTimerCommand", "kConfigCommand"}

\* A stdAc::state_t as its default member initialisers leave it.
DefaultState ==
  [ protocol |-> "UNKNOWN", model |-> 1, power |-> FALSE, mode |-> "kAuto",
    degrees |-> 25 * 9, celsius |-> TRUE, fanspeed |-> "kAuto",
    swingv |-> "kOff", swingh |-> "kOff", quiet |-> FALSE, turbo |-> FALSE,
    econo |-> FALSE, light |-> FALSE, filter |-> FALSE, clean |-> FALSE,
    beep |-> FALSE, sleep |-> -1, clock |-> -1,
    command |-> "kControlCommand", sensorTemperature |-> 25 * 9,
    iFeel |-> FALSE ]

Fields == DOMAIN DefaultState

NULL == << >>
Ptr(s) == <<s>>

\* fahrenheitToCelsius (IRutils): (f - 32) / 1.8, on ninths of a degree.
fahrenheitToCelsius(deg) == ((deg - 32 * 9) * 5) \div 9

----------------------------------------------------------------------------
(* Pure functions of the state algebra *)

\* IRac::initState(state, vendor, model, ...): the 18 flat arguments are
\* stored; command, sensorTemperature and iFeel keep the values that `state`
\* had (the defaults of a fresh state_t).
initState(state, f) ==
  [ state EXCEPT
      !.protocol = f.protocol, !.model = f.model, !.power = f.power,
      !.mode = f.mode, !.degrees = f.degrees, !.celsius = f.celsius,
      !.fanspeed = f.fanspeed, !.swingv = f.swingv, !.swingh = f.swingh,
      !.quiet = f.quiet, !.turbo = f.turbo, !.econo = f.econo,
      !.light = f.light, !.filter = f.filter, !.clean = f.clean,
      !.beep = f.beep, !.sleep = f.sleep, !.clock = f.clock ]

\* IRac::cleanState with the power left alone when the mode is off.
cleanState_NoForce(state) == state

\* IRac::cleanState
cleanState(state) ==
  LET res == state
  IN  IF state.mode = "kOff" THEN [res EXCEPT !.power = FALSE] ELSE res

\* `a | b` written for `a ^ b`.
xor_AsOr(a, b) == a \/ b

\* `a ^ b` on two bools
xor(a, b) == a # b

\* The swingv rule with an unchanged swing passing desired.swingv through.
swingvToggle_KeepsDesired(desired, prev) ==
  IF xor(desired.swingv = "kOff", prev.swingv = "kOff")
    THEN "kAuto"
    ELSE desired.swingv

\* The swingv rule of handleToggles: a change of off-ness toggles.
swingvToggle(desired, prev) ==
  IF xor(desired.swingv = "kOff", prev.swingv = "kOff")
    THEN "kAuto"   \* It changed, so toggle.
    ELSE "kOff"    \* No change, so no toggle.

\* The guard of handleToggles without the model comparison.
sameAc_NoModel(desired, prev) ==
  /\ prev # NULL
  /\ desired.protocol = prev[1].protocol

\* The guard of handleToggles: a previous state of the same A/C.
sameAc(desired, prev) ==
  /\ prev # NULL
  /\ desired.protocol = prev[1].protocol
  /\ desired.model = prev[1].model

\* The sleep rule passing the desired minutes through when nothing changed.
sleepToggle_KeepsMinutes(desired, prev) ==
  IF xor(desired.sleep >= 0, prev.sleep >= 0) THEN 0 ELSE desired.sleep

\* The sleep rule of handleToggles (COOLIX, TRANSCOLD): 0 toggles, -1 does not.
sleepToggle(desired, prev) ==
  IF xor(desired.sleep >= 0, prev.sleep >= 0) THEN 0 ELSE -1

\* The switch with the MIRAGE light toggle applied to every model.
toggleSwitch_MirageAnyModel(desired, p) ==
  LET r == desired
      protocol == desired.protocol
  IN CASE protocol \in {"COOLIX", "TRANSCOLD"} ->
            [r EXCEPT !.swingv = swingvToggle(desired, p),
                      !.turbo = xor(desired.turbo, p.turbo),
                      !.light = xor(desired.light, p.light),
                      !.clean = xor(desired.clean, p.clean),
                      !.sleep = sleepToggle(desired, p)]
       [] protocol = "DAIKIN128" ->
            [r EXCEPT !.power = xor(desired.power, p.power),
                      !.light = xor(desired.light, p.light)]
       [] protocol = "ELECTRA_AC" ->
            [r EXCEPT !.light = xor(desired.light, p.light)]
       [] protocol = "FUJITSU_AC" ->
            [r EXCEPT !.turbo = xor(desired.turbo, p.turbo),
                      !.econo = xor(desired.econo, p.econo)]
       [] protocol = "MIDEA" ->   \* falls through to the swingv rule
            [r EXCEPT !.turbo = xor(desired.turbo, p.turbo),
                      !.econo = xor(desired.econo, p.econo),
                      !.light = xor(desired.light, p.light),
                      !.clean = xor(desired.clean, p.clean),
                      !.swingv = swingvToggle(desired, p)]
       [] protocol \in {"CORONA_AC", "HITACHI_AC344", "HITACHI_AC424"} ->
            [r EXCEPT !.swingv = swingvToggle(desired, p)]
       [] protocol = "SHARP_AC" ->
            [r EXCEPT !.light = xor(desired.light, p.light),
                      !.swingv = swingvToggle(desired, p)]
       [] protocol = "KELON" ->   \* falls through to the power toggle
            [r EXCEPT !.swingv = swingvToggle(desired, p),
                      !.power = xor(desired.power, p.power)]
       [] protocol \in {"AIRWELL", "DAIKIN64", "PANASONIC_AC32",
                        "WHIRLPOOL_AC"} ->
            [r EXCEPT !.power = xor(desired.power, p.power)]
       [] protocol = "MIRAGE" ->
            [r EXCEPT !.light = xor(desired.light, p.light),
                      !.clean = xor(desired.clean, p.clean)]
       [] protocol = "PANASONIC_AC" ->
            \* CKP models use a power mode toggle.
            [r EXCEPT !.power = IF desired.model = kPanasonicCkp
                                  THEN xor(desired.power, p.power)
                                  ELSE desired.power]
       [] protocol = "SAMSUNG_AC" ->
            [r EXCEPT !.beep = xor(desired.beep, p.beep),
                      !.clean = xor(desired.clean, p.clean)]
       [] OTHER -> r

\* The switch of handleToggles, prev dereferenced.
toggleSwitch(desired, p) ==
  LET r == desired
      protocol == desired.protocol
  IN CASE protocol \in {"COOLIX", "TRANSCOLD"} ->
            [r EXCEPT !.swingv = swingvToggle(desired, p),
                      !.turbo = xor(desired.turbo, p.turbo),
                      !.light = xor(desired.light, p.light),
                      !.clean = xor(desired.clean, p.clean),
                      !.sleep = sleepToggle(desired, p)]
       [] protocol = "DAIKIN128" ->
            [r EXCEPT !.power = xor(desired.power, p.power),
                      !.light = xor(desired.light, p.light)]
       [] protocol = "ELECTRA_AC" ->
            [r EXCEPT !.light = xor(desired.light, p.light)]
       [] protocol = "FUJITSU_AC" ->
            [r EXCEPT !.turbo = xor(desired.turbo, p.turbo),
                      !.econo = xor(desired.econo, p.econo)]
       [] protocol = "MIDEA" ->   \* falls through to the swingv rule
            [r EXCEPT !.turbo = xor(desired.turbo, p.turbo),
                      !.econo = xor(desired.econo, p.econo),
                      !.light = xor(desired.light, p.light),
                      !.clean = xor(desired.clean, p.clean),
                      !.swingv = swingvToggle(desired, p)]
       [] protocol \in {"CORONA_AC", "HITACHI_AC344", "HITACHI_AC424"} ->
            [r EXCEPT !.swingv = swingvToggle(desired, p)]
       [] protocol = "SHARP_AC" ->
            [r EXCEPT !.light = xor(desired.light, p.light),
                      !.swingv = swingvToggle(desired, p)]
       [] protocol = "KELON" ->   \* falls through to the power toggle
            [r EXCEPT !.swingv = swingvToggle(desired, p),
                      !.power = xor(desired.power, p.power)]
       [] protocol \in {"AIRWELL", "DAIKIN64", "PANASONIC_AC32",
                        "WHIRLPOOL_AC"} ->
            [r EXCEPT !.power = xor(desired.power, p.power)]
       [] protocol = "MIRAGE" ->
            [r EXCEPT !.light = IF desired.model = KKG29AC1
                                  THEN xor(desired.light, p.light)
                                  ELSE desired.light,
                      !.clean = xor(desired.clean, p.clean)]
       [] protocol = "PANASONIC_AC" ->
            \* CKP models use a power mode toggle.
            [r EXCEPT !.power = IF desired.model = kPanasonicCkp
                                  THEN xor(desired.power, p.power)
                                  ELSE desired.power]
       [] protocol = "SAMSUNG_AC" ->
            [r EXCEPT !.beep = xor(desired.beep, p.beep),
                      !.clean = xor(desired.clean, p.clean)]
       [] OTHER -> r

\* IRac::handleToggles
handleToggles(desired, prev) ==
  IF sameAc(desired, prev) THEN toggleSwitch(desired, prev[1]) ELSE desired

\* IRac::cmpStates comparing the clock as well.
cmpStates_WithClock(a, b) == a # b

\* IRac::cmpStates: the comparison excludes the clock.
cmpStates(a, b) ==
  \/ a.protocol # b.protocol \/ a.model # b.model \/ a.power # b.power
  \/ a.mode # b.mode \/ a.degrees # b.degrees \/ a.celsius # b.celsius
  \/ a.fanspeed # b.fanspeed \/ a.swingv # b.swingv
  \/ a.swingh # b.swingh \/ a.quiet # b.quiet \/ a.turbo # b.turbo
  \/ a.econo # b.econo \/ a.light # b.light \/ a.filter # b.filter
  \/ a.clean # b.clean \/ a.beep # b.beep \/ a.sleep # b.sleep
  \/ a.command # b.command \/ a.sensorTemperature # b.sensorTemperature
  \/ a.iFeel # b.iFeel

----------------------------------------------------------------------------
(* The dispatcher *)

\* IRac::isProtocolSupported: a case label is compiled in when its SEND_
\* flag is set.
isProtocolSupported(protocol) ==
  /\ protocol \in AcProtocols
  /\ SendFlag(protocol) \in build

\* The vane loop of IRac::lg starting at the second vane.
lgVanes_SkipsFirst(pos) ==
  [ i \in 1..(kLgAcSwingVMaxVanes - 1) |-> <<"setVaneSwingV", <<i, pos>>>> ]

\* The for loop of IRac::lg over the vanes.
lgVanes(pos) ==
  [ i \in 1..kLgAcSwingVMaxVanes |-> <<"setVaneSwingV", <<i - 1, pos>>>> ]

\* The swing toggle of IRac::lg sent by every model.
lgSwingToggle_AnyModel(model, swingv, swingv_prev) ==
  IF (swingv = "kOff") # (swingv_prev = "kOff")
    THEN << <<"setSwingV", <<"kLgAcSwingVToggle">>>> >>
    ELSE << >>

\* IRac::lg, the toggle of the vertical swing: sent only by the model that
\* toggles, when the swing changes between off and not off.
lgSwingToggle(model, swingv, swingv_prev) ==
  IF /\ model = LG6711A20083V
     /\ (swingv = "kOff") # (swingv_prev = "kOff")
    THEN << <<"setSwingV", <<"kLgAcSwingVToggle">>>> >>
    ELSE << >>

\* IRac::lg: the calls made on the IRLgAc driver, in order.
lg(model, on, mode, degrees, fan, swingv, swingv_prev, swingh, light) ==
  << <<"begin", <<>>>>,
     <<"setModel", model>>,
     <<"setPower", on>>,
     <<"setMode", <<"convertMode", mode>>>>,
     <<"setTemp", degrees>>,
     <<"setFan", <<"convertFan", fan>>>>,
     <<"setSwingV", <<"convertSwingV", swingv_prev>>>>,
     <<"updateSwingPrev", <<>>>>,
     <<"setSwingV", <<"convertSwingV", swingv>>>> >>
  \o lgVanes(<<"convertVaneSwingV", swingv>>)
  \o lgSwingToggle(model, swingv, swingv_prev)
  \o << <<"setSwingH", swingh # "kOff">>,
        <<"setLight", light>>,
        <<"send", <<>>>> >>

\* IRac::rhoss: the calls made on the IRRhossAc driver, in order.
rhoss(on, mode, degrees, fan, swing) ==
  << <<"begin", <<>>>>,
     <<"setPower", on>>,
     <<"setMode", <<"convertMode", mode>>>>,
     <<"setSwing", swing # "kOff">>,
     <<"setTemp", degrees>>,
     <<"setFan", <<"convertFan", fan>>>>,
     <<"send", <<>>>> >>

\* IRac::sendAc(desired, prev): its return value, its local `send` and the
\* driver calls of the arm it takes. The local sensorTempC is computed by
\* the source and passed to no driver, so it is left out.
sendAc(desired, prev) ==
  LET degC == IF desired.celsius THEN desired.degrees
                                 ELSE fahrenheitToCelsius(desired.degrees)
      send == handleToggles(cleanState(desired), prev)
      prev_swingv == IF prev # NULL THEN prev[1].swingv ELSE "kOff"
  IN CASE send.protocol \in {"LG", "LG2"} /\ "LG" \in build ->
            [ ret |-> TRUE, send |-> send,
              calls |-> lg(send.model, send.power, send.mode, send.degrees,
                           send.fanspeed, send.swingv, prev_swingv,
                           send.swingh, send.light) ]
       [] send.protocol = "RHOSS" /\ "RHOSS" \in build ->
            [ ret |-> TRUE, send |-> send,
              calls |-> rhoss(send.power, send.mode, degC, send.fanspeed,
                              send.swingv) ]
       [] OTHER ->   \* Fail, didn't match anything.
            [ ret |-> FALSE, send |-> send, calls |-> << >> ]

\* markAsSent leaving _prev as it was.
markAsSent_KeepsPrev == UNCHANGED _prev

\* IRac::markAsSent: the assignment it makes.
markAsSent == _prev' = next

\* A client writes one member of the public field IRac::next.
EditNext(f, v) ==
  /\ next' = [next EXCEPT ![f] = v]
  /\ op' = "edit"
  /\ args' = << >> /\ ret' = FALSE /\ result' = NULL /\ calls' = << >>
  /\ UNCHANGED <<_prev, build>>

\* The public operation IRac::markAsSent().
MarkAsSent ==
  /\ markAsSent
  /\ op' = "markAsSent"
  /\ args' = << >> /\ ret' = FALSE /\ result' = NULL /\ calls' = << >>
  /\ UNCHANGED <<next, build>>

\* sendAc(void) marking the state as sent whatever the outcome.
SendAcVoid_MarkAlways ==
  LET r == sendAc(next, Ptr(_prev))
  IN /\ markAsSent
     /\ op' = "sendAc"
     /\ args' = << >> /\ ret' = r.ret /\ result' = Ptr(r.send)
     /\ calls' = r.calls
     /\ UNCHANGED <<next, build>>

\* sendAc(void) remembering the state it sent (`send`) instead of next.
SendAcVoid_StoreSend ==
  LET r == sendAc(next, Ptr(_prev))
  IN /\ _prev' = IF r.ret THEN r.send ELSE _prev
     /\ op' = "sendAc"
     /\ args' = << >> /\ ret' = r.ret /\ result' = Ptr(r.send)
     /\ calls' = r.calls
     /\ UNCHANGED <<next, build>>

\* IRac::sendAc(void)
SendAcVoid ==
  LET r == sendAc(next, Ptr(_prev))
  IN /\ IF r.ret THEN markAsSent ELSE UNCHANGED _prev
     /\ op' = "sendAc"
     /\ args' = << >> /\ ret' = r.ret /\ result' = Ptr(r.send)
     /\ calls' = r.calls
     /\ UNCHANGED <<next, build>>

\* sendAc(desired, prev) committing desired as the previous state.
SendAcStruct_Commits(desired, prev) ==
  LET r == sendAc(desired, prev)
  IN /\ op' = "sendAcStruct"
     /\ args' = <<desired>> \o prev
     /\ ret' = r.ret /\ result' = Ptr(r.send) /\ calls' = r.calls
     /\ _prev' = IF r.ret THEN desired ELSE _prev
     /\ UNCHANGED <<next, build>>

\* IRac::sendAc(desired, prev) called by a client.
SendAcStruct(desired, prev) ==
  LET r == sendAc(desired, prev)
  IN /\ op' = "sendAcStruct"
     /\ args' = <<desired>> \o prev
     /\ ret' = r.ret /\ result' = Ptr(r.send) /\ calls' = r.calls
     /\ UNCHANGED <<next, _prev, build>>

\* The flat sendAc giving the structured one no previous state.
SendAcFlat_NullPrev(f) ==
  LET to_send == initState(DefaultState, f)
      r == sendAc(to_send, NULL)
  IN /\ op' = "sendAcFlat"
     /\ args' = <<to_send, to_send>>
     /\ ret' = r.ret /\ result' = Ptr(r.send) /\ calls' = r.calls
     /\ UNCHANGED <<next, _prev, build>>

\* The flat sendAc building its state in the member next, not in a local.
SendAcFlat_StoresNext(f) ==
  LET to_send == initState(DefaultState, f)
      r == sendAc(to_send, Ptr(to_send))
  IN /\ op' = "sendAcFlat"
     /\ args' = <<to_send, to_send>>
     /\ ret' = r.ret /\ result' = Ptr(r.send) /\ calls' = r.calls
     /\ next' = to_send
     /\ UNCHANGED <<_prev, build>>

\* IRac::sendAc(vendor, model, ...): f holds the 18 flat arguments.
SendAcFlat(f) ==
  LET to_send == initState(DefaultState, f)
      r == sendAc(to_send, Ptr(to_send))
  IN /\ op' = "sendAcFlat"
     /\ args' = <<to_send, to_send>>
     /\ ret' = r.ret /\ result' = Ptr(r.send) /\ calls' = r.calls
     /\ UNCHANGED <<next, _prev, build>>

\* IRac::getState and IRac::getStatePrev: the values they return.
getState == next
getStatePrev == _prev

\* IRac::getState called by a client.
GetState ==
  /\ op' = "getState"
  /\ result' = Ptr(getState)
  /\ args' = << >> /\ ret' = FALSE /\ calls' = << >>
  /\ UNCHANGED <<next, _prev, build>>

\* IRac::getStatePrev called by a client.
GetStatePrev ==
  /\ op' = "getStatePrev"
  /\ result' = Ptr(getStatePrev)
  /\ args' = << >> /\ ret' = FALSE /\ calls' = << >>
  /\ UNCHANGED <<next, _prev, build>>

\* IRac::hasStateChanged: the value it returns.
hasStateChanged == cmpStates(next, _prev)

\* IRac::hasStateChanged called by a client.
HasStateChanged ==
  /\ op' = "hasStateChanged"
  /\ ret' = hasStateChanged
  /\ args' = << >> /\ result' = NULL /\ calls' = << >>
  /\ UNCHANGED <<next, _prev, build>>

----------------------------------------------------------------------------
(* Spec: one dispatcher and a client calling its public operations *)

\* The builds: the two drivers of this repository (LG, Rhoss), every
\* driver flag on, and each of the two drivers alone.
LightBuild == {"LG", "RHOSS"}
Builds == { LightBuild, SendFlags, {"LG"}, {"RHOSS"} }
DispatcherBuilds == { LightBuild, SendFlags }

\* The values a client writes into next.
EditFields == {"protocol", "power", "mode", "clock"}
EditValues(f) ==
  CASE f = "protocol" -> {"UNKNOWN", "LG", "COOLIX"}
    [] f = "power" -> BOOLEAN
    [] f = "mode" -> {"kOff", "kCool"}
    [] f = "clock" -> -1..MaxClock
    [] f = "iFeel" -> BOOLEAN

\* The states a client passes to the structured and the flat sendAc: power
\* on with the mode off and the swing on, of the model that toggles its
\* swing, for the protocols that are dispatched and one that is not.
ClientStates ==
  { [DefaultState EXCEPT !.protocol = p, !.model = LG6711A20083V,
                         !.mode = "kOff", !.power = TRUE,
                         !.swingv = "kAuto"] :
      p \in {"UNKNOWN", "LG", "RHOSS"} }
ClientPrevs ==
  {NULL} \cup { Ptr([DefaultState EXCEPT !.protocol = "LG"]) }

\* The flat argument list that describes state s.
FlatArgs(s) ==
  [ k \in Fields \ {"command", "sensorTemperature", "iFeel"} |-> s[k] ]

\* IRac::IRac: next is a default state_t and the constructor marks it sent.
Init ==
  /\ next = DefaultState
  /\ _prev = next
  /\ build \in DispatcherBuilds
  /\ op = "IRac"
  /\ args = << >> /\ ret = FALSE /\ result = NULL /\ calls = << >>

Next ==
  \/ \E f \in EditFields : \E v \in EditValues(f) : EditNext(f, v)
  \/ MarkAsSent
  \/ SendAcVoid
  \/ \E d \in ClientStates : \E p \in ClientPrevs : SendAcStruct(d, p)
  \/ \E d \in ClientStates : SendAcFlat(FlatArgs(d))
  \/ GetState
  \/ GetStatePrev
  \/ HasStateChanged

Spec == Init /\ [][Next]_vars

----------------------------------------------------------------------------
(* SpecSend: sendAc(desired, prev) on every protocol, in every build *)

\* A desired state of sendAc: power on, the swing off or high.
SendDesired(p, m, md, deg, c, sv) ==
  [DefaultState EXCEPT !.protocol = p, !.model = m, !.power = TRUE,
                       !.mode = md, !.degrees = deg * 9, !.celsius = c,
                       !.swingv = sv]

\* No previous state, or the desired state with the swing off or on.
SendPrevs(d) ==
  {NULL} \cup { Ptr([d EXCEPT !.swingv = sv]) : sv \in {"kOff", "kAuto"} }

InitSend ==
  /\ next = DefaultState
  /\ _prev = next
  /\ build \in Builds
  /\ op = "IRac"
  /\ \E p \in Protocols, m \in {GE6711AR2853M, LG6711A20083V},
        md \in {"kOff", "kCool"}, deg \in {22, 72}, c \in BOOLEAN,
        sv \in {"kOff", "kHigh"} :
       \E pv \in SendPrevs(SendDesired(p, m, md, deg, c, sv)) :
         args = <<SendDesired(p, m, md, deg, c, sv)>> \o pv
  /\ ret = FALSE /\ result = NULL /\ calls = << >>

\* The client calls sendAc(desired, prev) with the arguments it prepared.
CallSendAc ==
  /\ op = "IRac"
  /\ SendAcStruct(args[1], Tail(args))

NextSend == CallSendAc

SpecSend == InitSend /\ [][NextSend]_vars

----------------------------------------------------------------------------
(* SpecFlat: the flat sendAc on argument lists a client prepared *)

\* The protocols of the flat argument lists: the dispatched ones, one that
\* is only listed by isProtocolSupported and one that is not an A/C.
FlatProtocols == {"LG", "LG2", "RHOSS", "COOLIX", "UNKNOWN"}

\* A flat argument list: power on, the swing off or high.
FlatDesired(p, m, md, c, sv) ==
  FlatArgs(SendDesired(p, m, md, 72, c, sv))

InitFlat ==
  /\ next = DefaultState
  /\ _prev = next
  /\ build \in Builds
  /\ op = "IRac"
  /\ \E p \in FlatProtocols, m \in {GE6711AR2853M, LG6711A20083V},
        md \in {"kOff", "kCool"}, c \in BOOLEAN, sv \in {"kOff", "kHigh"} :
       args = << FlatDesired(p, m, md, c, sv) >>
  /\ ret = FALSE /\ result = NULL /\ calls = << >>

\* The client calls the flat sendAc with the arguments it prepared.
CallSendAcFlat ==
  /\ op = "IRac"
  /\ SendAcFlat(args[1])

NextFlat == CallSendAcFlat

SpecFlat == InitFlat /\ [][NextFlat]_vars

----------------------------------------------------------------------------
(* SpecToggles: handleToggles on pairs of desired and previous states *)

\* The protocols with a rule in handleToggles, and three without.
ToggleProtocols ==
  { "COOLIX", "TRANSCOLD", "DAIKIN128", "ELECTRA_AC", "FUJITSU_AC", "MIDEA",
    "CORONA_AC", "HITACHI_AC344", "HITACHI_AC424", "SHARP_AC", "KELON",
    "AIRWELL", "DAIKIN64", "PANASONIC_AC32", "WHIRLPOOL_AC", "MIRAGE",
    "PANASONIC_AC", "SAMSUNG_AC", "LG", "LG2", "RHOSS", "UNKNOWN" }
ToggleModels == {KKG29AC1, kPanasonicCkp}

\* The boolean fields handleToggles may rewrite.
ToggleBools == {"power", "turbo", "econo", "light", "clean", "beep"}

\* State s with exactly the fields of `on` (a subset of ToggleBools) true.
WithBools(s, on) ==
  [ f \in Fields |-> IF f \in ToggleBools THEN f \in on ELSE s[f] ]

\* The previous states differ from the desired ones in every field that
\* handleToggles has no rule for.
PrevBase ==
  [ DefaultState EXCEPT
      !.mode = "kHeat", !.degrees = 30 * 9, !.celsius = FALSE,
      !.fanspeed = "kMax", !.swingh = "kWide", !.quiet = TRUE,
      !.filter = TRUE, !.clock = 0, !.command = "kTimerCommand",
      !.sensorTemperature = 20 * 9, !.iFeel = TRUE ]

PrevBoolPatterns ==
  { {}, ToggleBools, {"power", "econo", "clean"}, {"turbo", "light", "beep"},
    {"power", "turbo", "light"}, {"econo", "clean", "beep"} }

\* A protocol and a model other than the given one.
OtherProtocol(protocol) == IF protocol = "COOLIX" THEN "MIDEA" ELSE "COOLIX"
OtherModel(model) == IF model = KKG29AC1 THEN kPanasonicCkp ELSE KKG29AC1

\* The previous-state pointers tried against a desired state, given the
\* previous state q of the same A/C: NULL, q itself, q with another model
\* and q with another protocol.
PrevKinds == {"NULL", "same", "otherModel", "otherProtocol"}
MkPrev(kind, q) ==
  CASE kind = "NULL" -> NULL
    [] kind = "same" -> Ptr(q)
    [] kind = "otherModel" -> Ptr([q EXCEPT !.model = OtherModel(q.model)])
    [] kind = "otherProtocol" ->
         Ptr([q EXCEPT !.protocol = OtherProtocol(q.protocol)])

\* The arguments are drawn from two families: every combination of the
\* boolean fields of desired against six patterns of the previous ones; and
\* every combination of swingv off/auto/high and of the sleep timer.
InitToggles ==
  /\ next = DefaultState
  /\ _prev = next
  /\ build = LightBuild
  /\ op = "IRac"
  /\ \E pr \in ToggleProtocols, m \in ToggleModels, kind \in PrevKinds :
       \/ \E don \in SUBSET ToggleBools, pon \in PrevBoolPatterns :
            args =
              <<WithBools([DefaultState EXCEPT !.protocol = pr,
                                               !.model = m], don)>>
              \o MkPrev(kind, WithBools([PrevBase EXCEPT !.protocol = pr,
                                                         !.model = m], pon))
       \/ \E dsv \in {"kOff", "kAuto", "kHigh"}, dsl \in -1..MaxSleep,
             psv \in {"kOff", "kHigh"}, psl \in {-1, MaxSleep} :
            args =
              <<[DefaultState EXCEPT !.protocol = pr, !.model = m,
                                     !.swingv = dsv, !.sleep = dsl]>>
              \o MkPrev(kind, [PrevBase EXCEPT !.protocol = pr, !.model = m,
                                               !.swingv = psv,
                                               !.sleep = psl])
  /\ ret = FALSE /\ result = NULL /\ calls = << >>

\* IRac::handleToggles called on the prepared arguments.
CallHandleToggles ==
  /\ op = "IRac"
  /\ op' = "handleToggles"
  /\ result' = Ptr(handleToggles(args[1], Tail(args)))
  /\ UNCHANGED <<next, _prev, build, args, ret, calls>>

NextToggles == CallHandleToggles

SpecToggles == InitToggles /\ [][NextToggles]_vars

----------------------------------------------------------------------------
(* SpecClean: cleanState, applied once and then to its own result *)

InitClean ==
  /\ next = DefaultState
  /\ _prev = next
  /\ build = LightBuild
  /\ op = "IRac"
  /\ \E base \in {DefaultState, PrevBase}, pr \in {"UNKNOWN", "LG", "COOLIX"},
        md \in Opmodes, pw \in BOOLEAN, sl \in -1..MaxSleep :
       args = <<[base EXCEPT !.protocol = pr, !.mode = md, !.power = pw,
                             !.sleep = sl]>>
  /\ ret = FALSE /\ result = NULL /\ calls = << >>

\* IRac::cleanState called on the prepared state.
CallCleanState ==
  /\ op = "IRac"
  /\ op' = "cleanState"
  /\ result' = Ptr(cleanState(args[1]))
  /\ UNCHANGED <<next, _prev, build, args, ret, calls>>

\* IRac::cleanState called on the state the first call returned.
CallCleanStateAgain ==
  /\ op = "cleanState"
  /\ op' = "cleanStateAgain"
  /\ args' = result
  /\ result' = Ptr(cleanState(result[1]))
  /\ UNCHANGED <<next, _prev, build, ret, calls>>

NextClean == CallCleanState \/ CallCleanStateAgain

SpecClean == InitClean /\ [][NextClean]_vars

----------------------------------------------------------------------------
(* SpecCmp: cmpStates on pairs of states, and hasStateChanged *)

\* A state that differs from DefaultState in every field.
AltState ==
  WithBools([PrevBase EXCEPT !.protocol = "LG", !.model = LG6711A20083V,
                             !.swingv = "kAuto", !.sleep = 0], ToggleBools)

\* State a with the fields of F taken from state o.
Mix(a, o, F) == [ f \in Fields |-> IF f \in F THEN o[f] ELSE a[f] ]

\* The pairs compared: a state, and the same state with up to two fields
\* taken from a state that differs everywhere and any clock; either order.
InitCmp ==
  /\ next = DefaultState
  /\ _prev = next
  /\ build = LightBuild
  /\ op = "IRac"
  /\ \E ao \in {<<DefaultState, AltState>>, <<AltState, DefaultState>>},
        f \in Fields, g \in Fields, k \in -1..MaxClock, swap \in BOOLEAN :
       LET a == ao[1]
           b == [Mix(a, ao[2], {f, g}) EXCEPT !.clock = k]
       IN args = IF swap THEN <<b, a>> ELSE <<a, b>>
  /\ ret = FALSE /\ result = NULL /\ calls = << >>

\* IRac::cmpStates called on the prepared pair.
CallCmpStates ==
  /\ op = "IRac"
  /\ op' = "cmpStates"
  /\ ret' = cmpStates(args[1], args[2])
  /\ UNCHANGED <<next, _prev, build, args, result, calls>>

CmpEditFields == {"power", "clock", "iFeel"}

NextCmp ==
  \/ CallCmpStates
  \/ \E f \in CmpEditFields : \E v \in EditValues(f) : EditNext(f, v)
  \/ MarkAsSent
  \/ HasStateChanged

SpecCmp == InitCmp /\ [][NextCmp]_vars

----------------------------------------------------------------------------
(* IRAcUtils: the adapter from a decoded frame to text and to a common   *)
(* state.  A decode_results is a record: its decode_type, whether the    *)
(* frame it holds is one the vendor driver accepts as valid (valid), the *)
(* text the driver renders for it (text) and the common state the driver *)
(* converts it to (common).                                              *)

\* IRLgAc::isValidLgAc after setRaw(d.value, d.decode_type).
isValidLgAc(d) == d.valid

\* IRLgAc::toString and IRRhossAc::toString after setRaw.
toString(d) == d.text

\* IRLgAc::toCommon(prev) and IRRhossAc::toCommon() after setRaw.
toCommon(d) == d.common

\* IRAcUtils::resultAcToString: the string returned and the calls made on
\* the driver.
resultAcToString(d) ==
  CASE d.decode_type \in {"LG", "LG2"} /\ "DECODE_LG" \in build ->
         [ str |-> IF isValidLgAc(d) THEN toString(d) ELSE "",
           calls |-> << <<"setRaw", <<>>>>,
                        <<"isValidLgAc", isValidLgAc(d)>> >>
                     \o ( IF isValidLgAc(d) THEN << <<"toString", <<>>>> >>
                                            ELSE << >> ) ]
    [] d.decode_type = "RHOSS" /\ "DECODE_RHOSS" \in build ->
         [ str |-> toString(d),
           calls |-> << <<"setRaw", <<>>>>, <<"toString", <<>>>> >> ]
    [] OTHER ->
         [ str |-> "", calls |-> << >> ]

\* decodeToState storing the common state before it asks whether the frame
\* is valid.
decodeToState_StoresFirst(decode, out, prev) ==
  IF decode = NULL \/ out = NULL
    THEN [ ret |-> FALSE, out |-> out, calls |-> << >> ]
    ELSE
      LET d == decode[1]
      IN CASE d.decode_type \in {"LG", "LG2"} /\ "DECODE_LG" \in build ->
                [ ret |-> isValidLgAc(d), out |-> Ptr(toCommon(d)),
                  calls |-> << <<"setRaw", <<>>>>, <<"toCommon", prev>>,
                               <<"isValidLgAc", isValidLgAc(d)>> >> ]
           [] d.decode_type = "RHOSS" /\ "DECODE_RHOSS" \in build ->
                [ ret |-> TRUE, out |-> Ptr(toCommon(d)),
                  calls |-> << <<"setRaw", <<>>>>, <<"toCommon", NULL>> >> ]
           [] OTHER ->
                [ ret |-> FALSE, out |-> out, calls |-> << >> ]

\* IRAcUtils::decodeToState: the value returned, what *result holds
\* afterwards (out is the pointer `result`) and the calls made on the
\* driver.
decodeToState(decode, out, prev) ==
  IF decode = NULL \/ out = NULL
    THEN [ ret |-> FALSE, out |-> out, calls |-> << >> ]
    ELSE
      LET d == decode[1]
      IN CASE d.decode_type \in {"LG", "LG2"} /\ "DECODE_LG" \in build ->
                IF ~isValidLgAc(d)
                  THEN [ ret |-> FALSE, out |-> out,
                         calls |-> << <<"setRaw", <<>>>>,
                                      <<"isValidLgAc", FALSE>> >> ]
                  ELSE [ ret |-> TRUE, out |-> Ptr(toCommon(d)),
                         calls |-> << <<"setRaw", <<>>>>,
                                      <<"isValidLgAc", TRUE>>,
                                      <<"toCommon", prev>> >> ]
           [] d.decode_type = "RHOSS" /\ "DECODE_RHOSS" \in build ->
                [ ret |-> TRUE, out |-> Ptr(toCommon(d)),
                  calls |-> << <<"setRaw", <<>>>>, <<"toCommon", NULL>> >> ]
           [] OTHER ->
                [ ret |-> FALSE, out |-> out, calls |-> << >> ]

\* A client calls resultAcToString on the decode it holds.
ResultAcToString(decode) ==
  LET r == resultAcToString(decode[1])
  IN /\ decode # NULL
     /\ op' = "resultAcToString"
     /\ ret' = FALSE /\ result' = <<r.str>> /\ calls' = r.calls
     /\ UNCHANGED <<next, _prev, build, args>>

\* A client calls decodeToState.
DecodeToState(decode, out, prev) ==
  LET r == decodeToState(decode, out, prev)
  IN /\ op' = "decodeToState"
     /\ ret' = r.ret /\ result' = r.out /\ calls' = r.calls
     /\ UNCHANGED <<next, _prev, build, args>>

----------------------------------------------------------------------------
(* SpecDecode: the adapter on decodes of every kind, in every build *)

\* The builds: both decoders, each alone, and neither.
DecodeBuilds ==
  { {"DECODE_LG", "DECODE_RHOSS"}, {"DECODE_LG"}, {"DECODE_RHOSS"}, {} }

\* The decodes: of the protocols with a driver, of one that is an A/C
\* without one and of one that is no A/C, each with a valid and with an
\* invalid frame.
DecodeTypes == {"LG", "LG2", "RHOSS", "COOLIX", "NEC"}
DecodeResult(t, v) ==
  [ decode_type |-> t, valid |-> v, text |-> "Power: On",
    common |-> [DefaultState EXCEPT !.protocol = t, !.power = TRUE,
                                    !.mode = "kCool"] ]

InitDecode ==
  /\ next = DefaultState
  /\ _prev = next
  /\ build \in DecodeBuilds
  /\ op = "IRac"
  /\ \E decode \in {NULL} \cup { Ptr(DecodeResult(t, v)) :
                                  t \in DecodeTypes, v \in BOOLEAN },
        out \in {NULL, Ptr(DefaultState)},
        prev \in {NULL, Ptr(DefaultState)} :
       args = <<decode, out, prev>>
  /\ ret = FALSE /\ result = NULL /\ calls = << >>

CallResultAcToString ==
  /\ op = "IRac"
  /\ ResultAcToString(args[1])

CallDecodeToState ==
  /\ op = "IRac"
  /\ DecodeToState(args[1], args[2], args[3])

NextDecode ==
  \/ CallResultAcToString
  \/ CallDecodeToState

SpecDecode == InitDecode /\ [][NextDecode]_vars

----------------------------------------------------------------------------
(* Text.  A C string is the sequence of its characters, each a string of  *)
(* length one.  The string constants (IRtext) hold the tokens of the      *)
(* parser's synonym tables; a model codename is spelled as its constant   *)
(* is named.                                                              *)

\* The tokens of the parsers and the renderers, by the name of their
\* constant.
IRtext ==
  [ kControlCommandStr |-> <<"C", "o", "n", "t", "r", "o", "l">>,
    kIFeelReportStr |-> <<"I", "F", "e", "e", "l", "R", "e", "p", "o", "r", "t">>,
    kIFeelStr |-> <<"I", "F", "e", "e", "l">>,
    kSetTimerCommandStr |-> <<"S", "e", "t", "T", "i", "m", "e", "r", "C", "o", "m", "m", "a", "n", "d">>,
    kTimerStr |-> <<"T", "i", "m", "e", "r">>,
    kConfigCommandStr |-> <<"C", "o", "n", "f", "i", "g">>,
    kAutoStr |-> <<"A", "u", "t", "o">>,
    kAutomaticStr |-> <<"A", "u", "t", "o", "m", "a", "t", "i", "c">>,
    kOffStr |-> <<"O", "f", "f">>,
    kStopStr |-> <<"S", "t", "o", "p">>,
    kCoolStr |-> <<"C", "o", "o", "l">>,
    kCoolingStr |-> <<"C", "o", "o", "l", "i", "n", "g">>,
    kHeatStr |-> <<"H", "e", "a", "t">>,
    kHeatingStr |-> <<"H", "e", "a", "t", "i", "n", "g">>,
    kDryStr |-> <<"D", "r", "y">>,
    kDryingStr |-> <<"D", "r", "y", "i", "n", "g">>,
    kDehumidifyStr |-> <<"D", "e", "h", "u", "m", "i", "d", "i", "f", "y">>,
    kFanStr |-> <<"F", "a", "n">>,
    kFanOnlyStr |-> <<"f", "a", "n", "-", "o", "n", "l", "y">>,
    kFan_OnlyStr |-> <<"f", "a", "n", "_", "o", "n", "l", "y">>,
    kFanOnlyWithSpaceStr |-> <<"F", "a", "n", " ", "O", "n", "l", "y">>,
    kFanOnlyNoSpaceStr |-> <<"F", "a", "n", "O", "n", "l", "y">>,
    kMinStr |-> <<"M", "i", "n">>,
    kMinimumStr |-> <<"M", "i", "n", "i", "m", "u", "m">>,
    kLowestStr |-> <<"L", "o", "w", "e", "s", "t">>,
    kLowStr |-> <<"L", "o", "w">>,
    kLoStr |-> <<"L", "o">>,
    kMedStr |-> <<"M", "e", "d">>,
    kMediumStr |-> <<"M", "e", "d", "i", "u", "m">>,
    kMidStr |-> <<"M", "i", "d">>,
    kHighStr |-> <<"H", "i", "g", "h">>,
    kHiStr |-> <<"H", "i">>,
    kMaxStr |-> <<"M", "a", "x">>,
    kMaximumStr |-> <<"M", "a", "x", "i", "m", "u", "m">>,
    kHighestStr |-> <<"H", "i", "g", "h", "e", "s", "t">>,
    kMedHighStr |-> <<"M", "e", "d", "H", "i", "g", "h">>,
    kOnStr |-> <<"O", "n">>,
    kSwingStr |-> <<"S", "w", "i", "n", "g">>,
    kBottomStr |-> <<"B", "o", "t", "t", "o", "m">>,
    kDownStr |-> <<"D", "o", "w", "n">>,
    kMiddleStr |-> <<"M", "i", "d", "d", "l", "e">>,
    kCentreStr |-> <<"C", "e", "n", "t", "r", "e">>,
    kUpperMiddleStr |-> <<"U", "p", "p", "e", "r", "M", "i", "d", "d", "l", "e">>,
    kTopStr |-> <<"T", "o", "p">>,
    kUpStr |-> <<"U", "p">>,
    kLeftMaxNoSpaceStr |-> <<"L", "e", "f", "t", "M", "a", "x">>,
    kLeftMaxStr |-> <<"L", "e", "f", "t", " ", "M", "a", "x">>,
    kMaxLeftNoSpaceStr |-> <<"M", "a", "x", "L", "e", "f", "t">>,
    kMaxLeftStr |-> <<"M", "a", "x", " ", "L", "e", "f", "t">>,
    kLeftStr |-> <<"L", "e", "f", "t">>,
    kRightStr |-> <<"R", "i", "g", "h", "t">>,
    kRightMaxNoSpaceStr |-> <<"R", "i", "g", "h", "t", "M", "a", "x">>,
    kRightMaxStr |-> <<"R", "i", "g", "h", "t", " ", "M", "a", "x">>,
    kMaxRightNoSpaceStr |-> <<"M", "a", "x", "R", "i", "g", "h", "t">>,
    kMaxRightStr |-> <<"M", "a", "x", " ", "R", "i", "g", "h", "t">>,
    kWideStr |-> <<"W", "i", "d", "e">>,
    k1Str |-> <<"1">>,
    kYesStr |-> <<"Y", "e", "s">>,
    kTrueStr |-> <<"T", "r", "u", "e">>,
    k0Str |-> <<"0">>,
    kNoStr |-> <<"N", "o">>,
    kFalseStr |-> <<"F", "a", "l", "s", "e">>,
    kUnknownStr |-> <<"U", "n", "k", "n", "o", "w", "n">> ]

\* The model codenames, by the name of their constant.
IRtextModels ==
  [ kYaw1fStr |-> <<"Y", "A", "W", "1", "F">>,
    kYbofbStr |-> <<"Y", "B", "O", "F", "B">>,
    kYx1fsfStr |-> <<"Y", "X", "1", "F", "S", "F">>,
    kV9014557AStr |-> <<"V", "9", "0", "1", "4", "5", "5", "7", "A">>,
    kV9014557BStr |-> <<"V", "9", "0", "1", "4", "5", "5", "7", "B">>,
    kRlt0541htaaStr |-> <<"R", "L", "T", "0", "5", "4", "1", "H", "T", "A", "A">>,
    kRlt0541htabStr |-> <<"R", "L", "T", "0", "5", "4", "1", "H", "T", "A", "B">>,
    kArrah2eStr |-> <<"A", "R", "R", "A", "H", "2", "E">>,
    kArdb1Str |-> <<"A", "R", "D", "B", "1">>,
    kArreb1eStr |-> <<"A", "R", "R", "E", "B", "1", "E">>,
    kArjw2Str |-> <<"A", "R", "J", "W", "2">>,
    kArry4Str |-> <<"A", "R", "R", "Y", "4">>,
    kArrew4eStr |-> <<"A", "R", "R", "E", "W", "4", "E">>,
    kGe6711ar2853mStr |-> <<"G", "E", "6", "7", "1", "1", "A", "R", "2", "8", "5", "3", "M">>,
    kAkb75215403Str |-> <<"A", "K", "B", "7", "5", "2", "1", "5", "4", "0", "3">>,
    kAkb74955603Str |-> <<"A", "K", "B", "7", "4", "9", "5", "5", "6", "0", "3">>,
    kAkb73757604Str |-> <<"A", "K", "B", "7", "3", "7", "5", "7", "6", "0", "4">>,
    kLg6711a20083vStr |-> <<"L", "G", "6", "7", "1", "1", "A", "2", "0", "0", "8", "3", "V">>,
    kLkeStr |-> <<"L", "K", "E">>,
    kPanasonicLkeStr |-> <<"P", "A", "N", "A", "S", "O", "N", "I", "C", "L", "K", "E">>,
    kNkeStr |-> <<"N", "K", "E">>,
    kPanasonicNkeStr |-> <<"P", "A", "N", "A", "S", "O", "N", "I", "C", "N", "K", "E">>,
    kDkeStr |-> <<"D", "K", "E">>,
    kPanasonicDkeStr |-> <<"P", "A", "N", "A", "S", "O", "N", "I", "C", "D", "K", "E">>,
    kPkrStr |-> <<"P", "K", "R">>,
    kPanasonicPkrStr |-> <<"P", "A", "N", "A", "S", "O", "N", "I", "C", "P", "K", "R">>,
    kJkeStr |-> <<"J", "K", "E">>,
    kPanasonicJkeStr |-> <<"P", "A", "N", "A", "S", "O", "N", "I", "C", "J", "K", "E">>,
    kCkpStr |-> <<"C", "K", "P">>,
    kPanasonicCkpStr |-> <<"P", "A", "N", "A", "S", "O", "N", "I", "C", "C", "K", "P">>,
    kRkrStr |-> <<"R", "K", "R">>,
    kPanasonicRkrStr |-> <<"P", "A", "N", "A", "S", "O", "N", "I", "C", "R", "K", "R">>,
    kA907Str |-> <<"A", "9", "0", "7">>,
    kA705Str |-> <<"A", "7", "0", "5">>,
    kA903Str |-> <<"A", "9", "0", "3">>,
    kTac09chsdStr |-> <<"T", "A", "C", "0", "9", "C", "H", "S", "D">>,
    kGz055be1Str |-> <<"G", "Z", "0", "5", "5", "B", "E", "1">>,
    k122lzfStr |-> <<"1", "2", "2", "L", "Z", "F">>,
    kDg11j13aStr |-> <<"D", "G", "1", "1", "J", "1", "3", "A">>,
    kDg11j104Str |-> <<"D", "G", "1", "1", "J", "1", "0", "4">>,
    kDg11j191Str |-> <<"D", "G", "1", "1", "J", "1", "9", "1">>,
    kArgoWrem2Str |-> <<"A", "R", "G", "O", "W", "R", "E", "M", "2">>,
    kArgoWrem3Str |-> <<"A", "R", "G", "O", "W", "R", "E", "M", "3">> ]

\* The letters, in the two cases.
UpperCase ==
  << "A", "B", "C", "D", "E", "F", "G", "H", "I", "J", "K", "L", "M",
     "N", "O", "P", "Q", "R", "S", "T", "U", "V", "W", "X", "Y", "Z" >>
LowerCase ==
  << "a", "b", "c", "d", "e", "f", "g", "h", "i", "j", "k", "l", "m",
     "n", "o", "p", "q", "r", "s", "t", "u", "v", "w", "x", "y", "z" >>

\* tolower and toupper of the C library, on one character.
tolower(c) ==
  IF \E i \in DOMAIN UpperCase : UpperCase[i] = c
    THEN LowerCase[CHOOSE i \in DOMAIN UpperCase : UpperCase[i] = c]
    ELSE c
toupper(c) ==
  IF \E i \in DOMAIN LowerCase : LowerCase[i] = c
    THEN UpperCase[CHOOSE i \in DOMAIN LowerCase : LowerCase[i] = c]
    ELSE c

\* A comparison that tells the cases of a letter apart (strcmp).
STRCASECMP_CaseSensitive(LHS, RHS) == IF LHS = RHS THEN 0 ELSE 1

\* STRCASECMP (strcasecmp): 0 when the strings are equal once their letters
\* are folded to one case; the sign of another result is not modelled, the
\* code only tests for 0.
STRCASECMP(LHS, RHS) ==
  IF /\ Len(LHS) = Len(RHS)
     /\ \A i \in DOMAIN LHS : tolower(LHS[i]) = tolower(RHS[i])
    THEN 0
    ELSE 1

\* IRac::strToCommandType
strToCommandType(str, def) ==
  IF STRCASECMP(str, IRtext.kControlCommandStr) = 0
    THEN "kControlCommand"
  ELSE IF \/ STRCASECMP(str, IRtext.kIFeelReportStr) = 0
          \/ STRCASECMP(str, IRtext.kIFeelStr) = 0
    THEN "kSensorTempReport"
  ELSE IF \/ STRCASECMP(str, IRtext.kSetTimerCommandStr) = 0
          \/ STRCASECMP(str, IRtext.kTimerStr) = 0
    THEN "kTimerCommand"
  ELSE IF STRCASECMP(str, IRtext.kConfigCommandStr) = 0
    THEN "kConfigCommand"
  ELSE def

\* IRac::strToOpmode
strToOpmode(str, def) ==
  IF \/ STRCASECMP(str, IRtext.kAutoStr) = 0
     \/ STRCASECMP(str, IRtext.kAutomaticStr) = 0
    THEN "kAuto"
  ELSE IF \/ STRCASECMP(str, IRtext.kOffStr) = 0
          \/ STRCASECMP(str, IRtext.kStopStr) = 0
    THEN "kOff"
  ELSE IF \/ STRCASECMP(str, IRtext.kCoolStr) = 0
          \/ STRCASECMP(str, IRtext.kCoolingStr) = 0
    THEN "kCool"
  ELSE IF \/ STRCASECMP(str, IRtext.kHeatStr) = 0
          \/ STRCASECMP(str, IRtext.kHeatingStr) = 0
    THEN "kHeat"
  ELSE IF \/ STRCASECMP(str, IRtext.kDryStr) = 0
          \/ STRCASECMP(str, IRtext.kDryingStr) = 0
          \/ STRCASECMP(str, IRtext.kDehumidifyStr) = 0
    THEN "kDry"
  ELSE IF \/ STRCASECMP(str, IRtext.kFanStr) = 0
          \/ STRCASECMP(str, IRtext.kFanOnlyStr) = 0
          \/ STRCASECMP(str, IRtext.kFan_OnlyStr) = 0
          \/ STRCASECMP(str, IRtext.kFanOnlyWithSpaceStr) = 0
          \/ STRCASECMP(str, IRtext.kFanOnlyNoSpaceStr) = 0
    THEN "kFan"
  ELSE def

\* IRac::strToFanspeed
strToFanspeed(str, def) ==
  IF \/ STRCASECMP(str, IRtext.kAutoStr) = 0
     \/ STRCASECMP(str, IRtext.kAutomaticStr) = 0
    THEN "kAuto"
  ELSE IF \/ STRCASECMP(str, IRtext.kMinStr) = 0
          \/ STRCASECMP(str, IRtext.kMinimumStr) = 0
          \/ STRCASECMP(str, IRtext.kLowestStr) = 0
    THEN "kMin"
  ELSE IF \/ STRCASECMP(str, IRtext.kLowStr) = 0
          \/ STRCASECMP(str, IRtext.kLoStr) = 0
    THEN "kLow"
  ELSE IF \/ STRCASECMP(str, IRtext.kMedStr) = 0
          \/ STRCASECMP(str, IRtext.kMediumStr) = 0
          \/ STRCASECMP(str, IRtext.kMidStr) = 0
    THEN "kMedium"
  ELSE IF \/ STRCASECMP(str, IRtext.kHighStr) = 0
          \/ STRCASECMP(str, IRtext.kHiStr) = 0
    THEN "kHigh"
  ELSE IF \/ STRCASECMP(str, IRtext.kMaxStr) = 0
          \/ STRCASECMP(str, IRtext.kMaximumStr) = 0
          \/ STRCASECMP(str, IRtext.kHighestStr) = 0
    THEN "kMax"
  ELSE IF STRCASECMP(str, IRtext.kMedHighStr) = 0
    THEN "kMediumHigh"
  ELSE def

\* IRac::strToSwingV
strToSwingV(str, def) ==
  IF \/ STRCASECMP(str, IRtext.kAutoStr) = 0
     \/ STRCASECMP(str, IRtext.kAutomaticStr) = 0
     \/ STRCASECMP(str, IRtext.kOnStr) = 0
     \/ STRCASECMP(str, IRtext.kSwingStr) = 0
    THEN "kAuto"
  ELSE IF \/ STRCASECMP(str, IRtext.kOffStr) = 0
          \/ STRCASECMP(str, IRtext.kStopStr) = 0
    THEN "kOff"
  ELSE IF \/ STRCASECMP(str, IRtext.kMinStr) = 0
          \/ STRCASECMP(str, IRtext.kMinimumStr) = 0
          \/ STRCASECMP(str, IRtext.kLowestStr) = 0
          \/ STRCASECMP(str, IRtext.kBottomStr) = 0
          \/ STRCASECMP(str, IRtext.kDownStr) = 0
    THEN "kLowest"
  ELSE IF STRCASECMP(str, IRtext.kLowStr) = 0
    THEN "kLow"
  ELSE IF \/ STRCASECMP(str, IRtext.kMidStr) = 0
          \/ STRCASECMP(str, IRtext.kMiddleStr) = 0
          \/ STRCASECMP(str, IRtext.kMedStr) = 0
          \/ STRCASECMP(str, IRtext.kMediumStr) = 0
          \/ STRCASECMP(str, IRtext.kCentreStr) = 0
    THEN "kMiddle"
  ELSE IF STRCASECMP(str, IRtext.kUpperMiddleStr) = 0
    THEN "kUpperMiddle"
  ELSE IF \/ STRCASECMP(str, IRtext.kHighStr) = 0
          \/ STRCASECMP(str, IRtext.kHiStr) = 0
    THEN "kHigh"
  ELSE IF \/ STRCASECMP(str, IRtext.kHighestStr) = 0
          \/ STRCASECMP(str, IRtext.kMaxStr) = 0
          \/ STRCASECMP(str, IRtext.kMaximumStr) = 0
          \/ STRCASECMP(str, IRtext.kTopStr) = 0
          \/ STRCASECMP(str, IRtext.kUpStr) = 0
    THEN "kHighest"
  ELSE def

\* IRac::strToSwingH
strToSwingH(str, def) ==
  IF \/ STRCASECMP(str, IRtext.kAutoStr) = 0
     \/ STRCASECMP(str, IRtext.kAutomaticStr) = 0
     \/ STRCASECMP(str, IRtext.kOnStr) = 0
     \/ STRCASECMP(str, IRtext.kSwingStr) = 0
    THEN "kAuto"
  ELSE IF \/ STRCASECMP(str, IRtext.kOffStr) = 0
          \/ STRCASECMP(str, IRtext.kStopStr) = 0
    THEN "kOff"
  ELSE IF \/ STRCASECMP(str, IRtext.kLeftMaxNoSpaceStr) = 0
          \/ STRCASECMP(str, IRtext.kLeftMaxStr) = 0
          \/ STRCASECMP(str, IRtext.kMaxLeftNoSpaceStr) = 0
          \/ STRCASECMP(str, IRtext.kMaxLeftStr) = 0
    THEN "kLeftMax"
  ELSE IF STRCASECMP(str, IRtext.kLeftStr) = 0
    THEN "kLeft"
  ELSE IF \/ STRCASECMP(str, IRtext.kMidStr) = 0
          \/ STRCASECMP(str, IRtext.kMiddleStr) = 0
          \/ STRCASECMP(str, IRtext.kMedStr) = 0
          \/ STRCASECMP(str, IRtext.kMediumStr) = 0
          \/ STRCASECMP(str, IRtext.kCentreStr) = 0
    THEN "kMiddle"
  ELSE IF STRCASECMP(str, IRtext.kRightStr) = 0
    THEN "kRight"
  ELSE IF \/ STRCASECMP(str, IRtext.kRightMaxNoSpaceStr) = 0
          \/ STRCASECMP(str, IRtext.kRightMaxStr) = 0
          \/ STRCASECMP(str, IRtext.kMaxRightNoSpaceStr) = 0
          \/ STRCASECMP(str, IRtext.kMaxRightStr) = 0
    THEN "kRightMax"
  ELSE IF STRCASECMP(str, IRtext.kWideStr) = 0
    THEN "kWide"
  ELSE def

\* IRac::strToBool
strToBool(str, def) ==
  IF \/ STRCASECMP(str, IRtext.kOnStr) = 0
     \/ STRCASECMP(str, IRtext.k1Str) = 0
     \/ STRCASECMP(str, IRtext.kYesStr) = 0
     \/ STRCASECMP(str, IRtext.kTrueStr) = 0
    THEN TRUE
  ELSE IF \/ STRCASECMP(str, IRtext.kOffStr) = 0
          \/ STRCASECMP(str, IRtext.k0Str) = 0
          \/ STRCASECMP(str, IRtext.kNoStr) = 0
          \/ STRCASECMP(str, IRtext.kFalseStr) = 0
    THEN FALSE
  ELSE def

\* IRac::boolToString
boolToString(value) == IF value THEN IRtext.kOnStr ELSE IRtext.kOffStr

\* commandTypeToString without the case of the timer command.
commandTypeToString_NoTimer(cmdType) ==
  CASE cmdType = "kControlCommand" -> IRtext.kControlCommandStr
    [] cmdType = "kSensorTempReport" -> IRtext.kIFeelReportStr
    [] cmdType = "kConfigCommand" -> IRtext.kConfigCommandStr
    [] OTHER -> IRtext.kUnknownStr

\* IRac::commandTypeToString
commandTypeToString(cmdType) ==
  CASE cmdType = "kControlCommand" -> IRtext.kControlCommandStr
    [] cmdType = "kSensorTempReport" -> IRtext.kIFeelReportStr
    [] cmdType = "kTimerCommand" -> IRtext.kSetTimerCommandStr
    [] cmdType = "kConfigCommand" -> IRtext.kConfigCommandStr
    [] OTHER -> IRtext.kUnknownStr

\* IRac::opmodeToString
opmodeToString(mode, ha) ==
  CASE mode = "kOff" -> IRtext.kOffStr
    [] mode = "kAuto" -> IRtext.kAutoStr
    [] mode = "kCool" -> IRtext.kCoolStr
    [] mode = "kHeat" -> IRtext.kHeatStr
    [] mode = "kDry" -> IRtext.kDryStr
    [] mode = "kFan" -> IF ha THEN IRtext.kFan_OnlyStr ELSE IRtext.kFanStr
    [] OTHER -> IRtext.kUnknownStr

\* fanspeedToString rendering medium by its short synonym.
fanspeedToString_Med(speed) ==
  CASE speed = "kAuto" -> IRtext.kAutoStr
    [] speed = "kMax" -> IRtext.kMaxStr
    [] speed = "kHigh" -> IRtext.kHighStr
    [] speed = "kMedium" -> IRtext.kMedStr
    [] speed = "kMediumHigh" -> IRtext.kMedHighStr
    [] speed = "kLow" -> IRtext.kLowStr
    [] speed = "kMin" -> IRtext.kMinStr
    [] OTHER -> IRtext.kUnknownStr

\* IRac::fanspeedToString
fanspeedToString(speed) ==
  CASE speed = "kAuto" -> IRtext.kAutoStr
    [] speed = "kMax" -> IRtext.kMaxStr
    [] speed = "kHigh" -> IRtext.kHighStr
    [] speed = "kMedium" -> IRtext.kMediumStr
    [] speed = "kMediumHigh" -> IRtext.kMedHighStr
    [] speed = "kLow" -> IRtext.kLowStr
    [] speed = "kMin" -> IRtext.kMinStr
    [] OTHER -> IRtext.kUnknownStr

\* IRac::swingvToString
swingvToString(swingv) ==
  CASE swingv = "kOff" -> IRtext.kOffStr
    [] swingv = "kAuto" -> IRtext.kAutoStr
    [] swingv = "kHighest" -> IRtext.kHighestStr
    [] swingv = "kHigh" -> IRtext.kHighStr
    [] swingv = "kMiddle" -> IRtext.kMiddleStr
    [] swingv = "kUpperMiddle" -> IRtext.kUpperMiddleStr
    [] swingv = "kLow" -> IRtext.kLowStr
    [] swingv = "kLowest" -> IRtext.kLowestStr
    [] OTHER -> IRtext.kUnknownStr

\* IRac::swinghToString
swinghToString(swingh) ==
  CASE swingh = "kOff" -> IRtext.kOffStr
    [] swingh = "kAuto" -> IRtext.kAutoStr
    [] swingh = "kLeftMax" -> IRtext.kLeftMaxStr
    [] swingh = "kLeft" -> IRtext.kLeftStr
    [] swingh = "kMiddle" -> IRtext.kMiddleStr
    [] swingh = "kRight" -> IRtext.kRightStr
    [] swingh = "kRightMax" -> IRtext.kRightMaxStr
    [] swingh = "kWide" -> IRtext.kWideStr
    [] OTHER -> IRtext.kUnknownStr

\* The decimal digits, and the white space isspace accepts.
Digits == << "0", "1", "2", "3", "4", "5", "6", "7", "8", "9" >>
isdigit(c) == \E i \in DOMAIN Digits : Digits[i] = c
digitValue(c) == (CHOOSE i \in DOMAIN Digits : Digits[i] = c) - 1
isspace(c) == c \in {" ", "\t", "\n", "\r"}

\* atoi of the C library: leading white space, an optional sign, then the
\* decimal digits up to the first character that is not one.  The strings
\* of the model are short enough for the value to fit an int.
RECURSIVE atoiDigits(_, _)
atoiDigits(s, acc) ==
  IF s = << >> \/ ~isdigit(Head(s))
    THEN acc
    ELSE atoiDigits(Tail(s), acc * 10 + digitValue(Head(s)))
RECURSIVE atoiSkipSpace(_)
atoiSkipSpace(s) ==
  IF s # << >> /\ isspace(Head(s)) THEN atoiSkipSpace(Tail(s)) ELSE s
atoi(str) ==
  LET s == atoiSkipSpace(str)
  IN IF s # << >> /\ Head(s) = "-" THEN 0 - atoiDigits(Tail(s), 0)
     ELSE IF s # << >> /\ Head(s) = "+" THEN atoiDigits(Tail(s), 0)
     ELSE atoiDigits(s, 0)

\* The conversion of an int to int16_t: the low 16 bits, as a two's
\* complement number.
toInt16(n) ==
  LET m == n % 65536
  IN IF m >= 32768 THEN m - 65536 ELSE m

\* IRac::strToModel; the value of each enumerator is noted beside it.
strToModel(str, def) ==
  IF STRCASECMP(str, IRtextModels.kYaw1fStr) = 0
    THEN 1   \* gree_ac_remote_model_t::YAW1F
  ELSE IF STRCASECMP(str, IRtextModels.kYbofbStr) = 0
    THEN 2   \* gree_ac_remote_model_t::YBOFB
  ELSE IF STRCASECMP(str, IRtextModels.kYx1fsfStr) = 0
    THEN 3   \* gree_ac_remote_model_t::YX1FSF
  ELSE IF STRCASECMP(str, IRtextModels.kV9014557AStr) = 0
    THEN 1   \* haier_ac176_remote_model_t::V9014557_A
  ELSE IF STRCASECMP(str, IRtextModels.kV9014557BStr) = 0
    THEN 2   \* haier_ac176_remote_model_t::V9014557_B
  ELSE IF STRCASECMP(str, IRtextModels.kRlt0541htaaStr) = 0
    THEN 1   \* hitachi_ac1_remote_model_t::R_LT0541_HTA_A
  ELSE IF STRCASECMP(str, IRtextModels.kRlt0541htabStr) = 0
    THEN 2   \* hitachi_ac1_remote_model_t::R_LT0541_HTA_B
  ELSE IF STRCASECMP(str, IRtextModels.kArrah2eStr) = 0
    THEN 1   \* fujitsu_ac_remote_model_t::ARRAH2E
  ELSE IF STRCASECMP(str, IRtextModels.kArdb1Str) = 0
    THEN 2   \* fujitsu_ac_remote_model_t::ARDB1
  ELSE IF STRCASECMP(str, IRtextModels.kArreb1eStr) = 0
    THEN 3   \* fujitsu_ac_remote_model_t::ARREB1E
  ELSE IF STRCASECMP(str, IRtextModels.kArjw2Str) = 0
    THEN 4   \* fujitsu_ac_remote_model_t::ARJW2
  ELSE IF STRCASECMP(str, IRtextModels.kArry4Str) = 0
    THEN 5   \* fujitsu_ac_remote_model_t::ARRY4
  ELSE IF STRCASECMP(str, IRtextModels.kArrew4eStr) = 0
    THEN 6   \* fujitsu_ac_remote_model_t::ARREW4E
  ELSE IF STRCASECMP(str, IRtextModels.kGe6711ar2853mStr) = 0
    THEN GE6711AR2853M
  ELSE IF STRCASECMP(str, IRtextModels.kAkb75215403Str) = 0
    THEN 2   \* lg_ac_remote_model_t::AKB75215403
  ELSE IF STRCASECMP(str, IRtextModels.kAkb74955603Str) = 0
    THEN 3   \* lg_ac_remote_model_t::AKB74955603
  ELSE IF STRCASECMP(str, IRtextModels.kAkb73757604Str) = 0
    THEN 4   \* lg_ac_remote_model_t::AKB73757604
  ELSE IF STRCASECMP(str, IRtextModels.kLg6711a20083vStr) = 0
    THEN LG6711A20083V
  ELSE IF \/ STRCASECMP(str, IRtextModels.kLkeStr) = 0
          \/ STRCASECMP(str, IRtextModels.kPanasonicLkeStr) = 0
    THEN 1   \* panasonic_ac_remote_model_t::kPanasonicLke
  ELSE IF \/ STRCASECMP(str, IRtextModels.kNkeStr) = 0
          \/ STRCASECMP(str, IRtextModels.kPanasonicNkeStr) = 0
    THEN 2   \* panasonic_ac_remote_model_t::kPanasonicNke
  ELSE IF \/ STRCASECMP(str, IRtextModels.kDkeStr) = 0
          \/ STRCASECMP(str, IRtextModels.kPanasonicDkeStr) = 0
          \/ STRCASECMP(str, IRtextModels.kPkrStr) = 0
          \/ STRCASECMP(str, IRtextModels.kPanasonicPkrStr) = 0
    THEN 3   \* panasonic_ac_remote_model_t::kPanasonicDke
  ELSE IF \/ STRCASECMP(str, IRtextModels.kJkeStr) = 0
          \/ STRCASECMP(str, IRtextModels.kPanasonicJkeStr) = 0
    THEN 4   \* panasonic_ac_remote_model_t::kPanasonicJke
  ELSE IF \/ STRCASECMP(str, IRtextModels.kCkpStr) = 0
          \/ STRCASECMP(str, IRtextModels.kPanasonicCkpStr) = 0
    THEN kPanasonicCkp
  ELSE IF \/ STRCASECMP(str, IRtextModels.kRkrStr) = 0
          \/ STRCASECMP(str, IRtextModels.kPanasonicRkrStr) = 0
    THEN 6   \* panasonic_ac_remote_model_t::kPanasonicRkr
  ELSE IF STRCASECMP(str, IRtextModels.kA907Str) = 0
    THEN 1   \* sharp_ac_remote_model_t::A907
  ELSE IF STRCASECMP(str, IRtextModels.kA705Str) = 0
    THEN 2   \* sharp_ac_remote_model_t::A705
  ELSE IF STRCASECMP(str, IRtextModels.kA903Str) = 0
    THEN 3   \* sharp_ac_remote_model_t::A903
  ELSE IF STRCASECMP(str, IRtextModels.kTac09chsdStr) = 0
    THEN 1   \* tcl_ac_remote_model_t::TAC09CHSD
  ELSE IF STRCASECMP(str, IRtextModels.kGz055be1Str) = 0
    THEN 2   \* tcl_ac_remote_model_t::GZ055BE1
  ELSE IF STRCASECMP(str, IRtextModels.k122lzfStr) = 0
    THEN 1   \* voltas_ac_remote_model_t::kVoltas122LZF
  ELSE IF \/ STRCASECMP(str, IRtextModels.kDg11j13aStr) = 0
          \/ STRCASECMP(str, IRtextModels.kDg11j104Str) = 0
    THEN 1   \* whirlpool_ac_remote_model_t::DG11J13A
  ELSE IF STRCASECMP(str, IRtextModels.kDg11j191Str) = 0
    THEN 2   \* whirlpool_ac_remote_model_t::DG11J191
  ELSE IF STRCASECMP(str, IRtextModels.kArgoWrem2Str) = 0
    THEN 1   \* argo_ac_remote_model_t::SAC_WREM2
  ELSE IF STRCASECMP(str, IRtextModels.kArgoWrem3Str) = 0
    THEN 2   \* argo_ac_remote_model_t::SAC_WREM3
  ELSE LET number == toInt16(atoi(str))
       IN IF number > 0 THEN number ELSE def

----------------------------------------------------------------------------
(* SpecParse: the six parsers on synonyms in several spellings and on      *)
(* strings that are no synonym                                             *)

\* At most MaxUpper letters of an input are in upper case, or all of them.
MaxUpper == 1

\* The parsers, by the kind of value they return, and their values.
ParserKinds == {"command", "opmode", "fanspeed", "swingv", "swingh", "bool"}
ParserValues(kind) ==
  CASE kind = "command" -> Commands
    [] kind = "opmode" -> Opmodes
    [] kind = "fanspeed" -> Fanspeeds
    [] kind = "swingv" -> SwingVs
    [] kind = "swingh" -> SwingHs
    [] kind = "bool" -> BOOLEAN

\* The call of the parser of a kind.
strTo(kind, str, def) ==
  CASE kind = "command" -> strToCommandType(str, def)
    [] kind = "opmode" -> strToOpmode(str, def)
    [] kind = "fanspeed" -> strToFanspeed(str, def)
    [] kind = "swingv" -> strToSwingV(str, def)
    [] kind = "swingh" -> strToSwingH(str, def)
    [] kind = "bool" -> strToBool(str, def)

\* Every string constant a parser compares with.
ParserStrings ==
  { IRtext[k] : k \in DOMAIN IRtext \ {"kUnknownStr"} }

\* The string s with the letters at the positions U in upper case and the
\* others in lower case.
Cased(s, U) ==
  [ i \in DOMAIN s |-> IF i \in U THEN toupper(s[i]) ELSE tolower(s[i]) ]

\* The spellings of s given to a parser: s itself, its letter cases, s
\* without its last character and s with one more.
Spellings(s) ==
  {s, Cased(s, DOMAIN s), SubSeq(s, 1, Len(s) - 1), s \o <<"x">>}
    \cup { Cased(s, U) : U \in { V \in SUBSET DOMAIN s :
                                   Cardinality(V) <= MaxUpper } }

\* Two defaults per parser.
ParserDefaults(kind) ==
  CASE kind = "command" -> {"kControlCommand", "kTimerCommand"}
    [] kind = "opmode" -> {"kAuto", "kFan"}
    [] kind = "fanspeed" -> {"kAuto", "kMedium"}
    [] kind = "swingv" -> {"kOff", "kMiddle"}
    [] kind = "swingh" -> {"kOff", "kLeftMax"}
    [] kind = "bool" -> BOOLEAN

InitParse ==
  /\ next = DefaultState
  /\ _prev = next
  /\ build = LightBuild
  /\ op = "IRac"
  /\ \E kind \in ParserKinds, s \in ParserStrings :
       \E str \in Spellings(s), def \in ParserDefaults(kind) :
         args = <<kind, str, def>>
  /\ ret = FALSE /\ result = NULL /\ calls = << >>

\* A client calls the parser of the kind on the string, with the default.
CallStrTo ==
  /\ op = "IRac"
  /\ op' = "strTo"
  /\ result' = << strTo(args[1], args[2], args[3]) >>
  /\ ret' = FALSE /\ calls' = << >>
  /\ UNCHANGED <<next, _prev, build, args>>

NextParse == CallStrTo

SpecParse == InitParse /\ [][NextParse]_vars

----------------------------------------------------------------------------
(* SpecRender: every value rendered, and the rendering parsed back *)

\* The call of the renderer of a kind; ha is read by opmodeToString only.
toStringOf(kind, value, ha) ==
  CASE kind = "command" -> commandTypeToString(value)
    [] kind = "opmode" -> opmodeToString(value, ha)
    [] kind = "fanspeed" -> fanspeedToString(value)
    [] kind = "swingv" -> swingvToString(value)
    [] kind = "swingh" -> swinghToString(value)
    [] kind = "bool" -> boolToString(value)

InitRender ==
  /\ next = DefaultState
  /\ _prev = next
  /\ build = LightBuild
  /\ op = "IRac"
  /\ \E kind \in ParserKinds :
       \E value \in ParserValues(kind),
          ha \in (IF kind = "opmode" THEN BOOLEAN ELSE {FALSE}) :
         args = <<kind, value, ha>>
  /\ ret = FALSE /\ result = NULL /\ calls = << >>

\* A client renders the value.
CallToString ==
  /\ op = "IRac"
  /\ op' = "toString"
  /\ result' = << toStringOf(args[1], args[2], args[3]) >>
  /\ ret' = FALSE /\ calls' = << >>
  /\ UNCHANGED <<next, _prev, build, args>>

\* The client parses the string it was given back, with a default that is
\* not the value rendered.
ParseRendered ==
  /\ op = "toString"
  /\ \E def \in ParserValues(args[1]) \ {args[2]} :
       /\ args' = args \o <<def>>
       /\ result' = << strTo(args[1], result[1], def) >>
  /\ op' = "roundTrip"
  /\ ret' = FALSE /\ calls' = << >>
  /\ UNCHANGED <<next, _prev, build>>

NextRender ==
  \/ CallToString
  \/ ParseRendered

SpecRender == InitRender /\ [][NextRender]_vars

----------------------------------------------------------------------------
(* SpecModelCode: strToModel on codenames, numbers and other strings *)

\* Every codename strToModel compares with.
ModelStrings == { IRtextModels[k] : k \in DOMAIN IRtextModels }

\* The decimal form of the natural number n.
RECURSIVE Decimal(_)
Decimal(n) ==
  IF n < 10 THEN << Digits[n + 1] >>
            ELSE Decimal(n \div 10) \o << Digits[(n % 10) + 1] >>

\* The numbers given to strToModel in decimal form: small ones, and the
\* ones about the ends of the ranges of int16_t and uint16_t.
ModelNumbers ==
  {0, 1, 7, 10, 255, 32767, 32768, 40000, 65535, 65536, 65537, 98304}

\* Strings that hold no number, or more than one.
ModelOtherStrings ==
  { << >>,
    <<"g", "a", "r", "b", "a", "g", "e">>,
    <<"-", "3">>,
    <<"+", "5">>,
    <<" ", "1", "2">>,
    <<"7", "a", "b", "c">>,
    <<"x", "7">> }

\* The defaults given to strToModel.
ModelDefaults == {-1, 0, 3}

InitModelCode ==
  /\ next = DefaultState
  /\ _prev = next
  /\ build = LightBuild
  /\ op = "IRac"
  /\ \E str \in { Decimal(n) : n \in ModelNumbers }
                  \cup ModelOtherStrings
                  \cup ModelStrings
                  \cup { Cased(s, {}) : s \in ModelStrings },
        def \in ModelDefaults :
       args = <<str, def>>
  /\ ret = FALSE /\ result = NULL /\ calls = << >>

\* A client calls strToModel.
CallStrToModel ==
  /\ op = "IRac"
  /\ op' = "strToModel"
  /\ result' = << strToModel(args[1], args[2]) >>
  /\ ret' = FALSE /\ calls' = << >>
  /\ UNCHANGED <<next, _prev, build, args>>

NextModelCode == CallStrToModel

SpecModelCode == InitModelCode /\ [][NextModelCode]_vars

----------------------------------------------------------------------------
(* Claims *)

SendOps == {"sendAc", "sendAcStruct", "sendAcFlat"}

\* C1: the no-argument sendAc() behaves as sendAc(next, &_prev): it returns
\* what the structured form returns and drives the driver with the same
\* calls; when it returns true _prev equals next afterwards, when it returns
\* false _prev keeps its value; next is unchanged in both cases.
C1_SendAcVoidIsStructuredOnNext ==
  [][ op' = "sendAc" =>
        LET r == sendAc(next, Ptr(_prev))
        IN /\ ret' = r.ret
           /\ calls' = r.calls
           /\ result' = Ptr(r.send)
           /\ next' = next
           /\ (ret' => _prev' = next')
           /\ (~ret' => _prev' = _prev) ]_vars

\* C1 witness: sendAc() has just failed on a next that differs from _prev,
\* and _prev did not advance.
C1_Witness ==
  /\ op = "sendAc" /\ ~ret
  /\ next.protocol = "COOLIX" /\ next.power /\ ~_prev.power

\* C2 as stated: after a sendAc() that returned true, getStatePrev() is the
\* normalised (cleanState) and toggle-resolved (handleToggles against the
\* old _prev) form of next; after one that returned false, _prev is
\* unchanged.
C2_PrevIsResolvedInput ==
  [][ op' = "sendAc" =>
        IF ret'
          THEN getStatePrev' = handleToggles(cleanState(next), Ptr(_prev))
          ELSE getStatePrev' = _prev ]_vars

\* C2 amended: after a sendAc() that returned true, getStatePrev() is next
\* exactly as the caller left it, while the state handed to the driver is
\* the normalised, toggle-resolved one; after one that returned false,
\* _prev is unchanged.
C2_PrevIsRawInput ==
  [][ op' = "sendAc" =>
        IF ret'
          THEN /\ getStatePrev' = next
               /\ result' = Ptr(handleToggles(cleanState(next), Ptr(_prev)))
          ELSE getStatePrev' = _prev ]_vars

\* C2 witness: sendAc() succeeded on a next with mode off and power on; the
\* state sent had the power forced off, the state remembered has it on.
C2_Witness ==
  /\ op = "sendAc" /\ ret
  /\ next.mode = "kOff" /\ next.power
  /\ getStatePrev = next
  /\ ~result[1].power

\* C3: sendAc(desired, prev) returns true exactly for the protocols for
\* which isProtocolSupported returns true.
C3_SendAcIffSupported ==
  op = "sendAcStruct" => (ret <=> isProtocolSupported(args[1].protocol))

\* C4 as stated: _prev changes in a step only if the step is a sendAc call
\* (any form) that returned true, and every sendAc call that returned true
\* leaves the state it sent in _prev.
C4_PrevTracksEverySend ==
  [][ /\ (_prev' # _prev => op' \in SendOps /\ ret')
      /\ (op' \in SendOps /\ ret' =>
            _prev' = IF op' = "sendAc" THEN next ELSE args'[1]) ]_vars

\* C4 amended: _prev changes in a step only if the step is a no-argument
\* sendAc() that returned true or a markAsSent(); every no-argument sendAc()
\* that returned true leaves next in _prev; the structured and the flat
\* sendAc never change _prev, whatever they return.
C4_PrevAdvancesOnVoidSendOrMark ==
  [][ /\ (_prev' # _prev =>
            \/ op' = "sendAc" /\ ret'
            \/ op' = "markAsSent")
      /\ (op' = "sendAc" /\ ret' => _prev' = next)
      /\ (op' = "markAsSent" => _prev' = next)
      /\ (op' \in {"sendAcStruct", "sendAcFlat"} => _prev' = _prev) ]_vars

\* C4 witness: a structured sendAc has just returned true for a state that
\* _prev does not hold.
C4_Witness ==
  /\ op = "sendAcStruct" /\ ret
  /\ cmpStates(args[1], _prev)

\* The temperatures a driver was given through setTemp, in call order.
SetTempCalls == SelectSeq(calls, LAMBDA c : c[1] = "setTemp")

\* C5: whenever sendAc dispatches, the driver's setTemp receives Celsius:
\* desired.degrees when desired.celsius, fahrenheitToCelsius(desired.degrees)
\* otherwise.
C5_DriverTempIsCelsius ==
  op = "sendAcStruct" /\ ret =>
    SetTempCalls =
      << <<"setTemp",
           IF args[1].celsius THEN args[1].degrees
             ELSE fahrenheitToCelsius(args[1].degrees)>> >>

\* The desired and the previous state of a handleToggles call that was
\* given a previous state.
TogD == args[1]
TogP == args[2]
TogApplies ==
  /\ op = "handleToggles"
  /\ Len(args) = 2
  /\ TogD.protocol = TogP.protocol
  /\ TogD.model = TogP.model

\* The toggled boolean fields of each protocol, as C6 lists them.
ToggledFields(protocol, model) ==
  CASE protocol \in {"COOLIX", "TRANSCOLD"} -> {"turbo", "light", "clean"}
    [] protocol = "DAIKIN128" -> {"power", "light"}
    [] protocol = "ELECTRA_AC" -> {"light"}
    [] protocol = "FUJITSU_AC" -> {"turbo", "econo"}
    [] protocol = "MIDEA" -> {"turbo", "econo", "light", "clean"}
    [] protocol = "SHARP_AC" -> {"light"}
    [] protocol \in {"KELON", "AIRWELL", "DAIKIN64", "PANASONIC_AC32",
                     "WHIRLPOOL_AC"} -> {"power"}
    [] protocol = "MIRAGE" ->
         IF model = KKG29AC1 THEN {"clean", "light"} ELSE {"clean"}
    [] protocol = "PANASONIC_AC" ->
         IF model = kPanasonicCkp THEN {"power"} ELSE {}
    [] protocol = "SAMSUNG_AC" -> {"beep", "clean"}
    [] OTHER -> {}

\* C6: for desired d and previous p of the same protocol and model, each
\* toggled boolean field f of the protocol comes out as d.f XOR p.f.
C6_ToggleIsXor ==
  TogApplies =>
    \A f \in ToggledFields(TogD.protocol, TogD.model) :
      result[1][f] = (TogD[f] # TogP[f])

\* C6 witness: SAMSUNG_AC with beep set in both states comes out with beep
\* clear, and with clean set only in desired comes out with clean set.
C6_Witness ==
  /\ TogApplies
  /\ TogD.protocol = "SAMSUNG_AC"
  /\ TogD.beep /\ TogP.beep /\ ~result[1].beep
  /\ TogD.clean /\ ~TogP.clean /\ result[1].clean

SwingvRuleProtocols ==
  { "COOLIX", "TRANSCOLD", "MIDEA", "CORONA_AC", "HITACHI_AC344",
    "HITACHI_AC424", "SHARP_AC", "KELON" }

\* C7: for a protocol with the swingv rule, the resolved swingv is auto or
\* off, and it is auto exactly when the off-ness of swingv changed.
C7_SwingvToggle ==
  TogApplies /\ TogD.protocol \in SwingvRuleProtocols =>
    /\ result[1].swingv \in {"kAuto", "kOff"}
    /\ (result[1].swingv = "kAuto") <=>
         ((TogD.swingv = "kOff") # (TogP.swingv = "kOff"))

\* C7 witness: KELON with the swing high before and after resolves to off.
C7_Witness ==
  /\ TogApplies
  /\ TogD.protocol = "KELON"
  /\ TogD.swingv = "kHigh" /\ TogP.swingv = "kHigh"
  /\ result[1].swingv = "kOff"

\* C8: handleToggles returns desired unchanged when prev is NULL, or the
\* protocols differ, or the models differ.
C8_IdentityOnMismatch ==
  op = "handleToggles" /\ ~TogApplies => result[1] = TogD

\* C8 witness: COOLIX with the same protocol but another model, and a
\* previous turbo that the rule would have toggled against.
C8_Witness ==
  /\ op = "handleToggles" /\ Len(args) = 2
  /\ TogD.protocol = "COOLIX" /\ TogP.protocol = "COOLIX"
  /\ TogD.model # TogP.model
  /\ TogD.turbo /\ TogP.turbo
  /\ result[1] = TogD

\* C9: cleanState(x) is x with the power forced off when the mode is off and
\* nothing else touched, and applying cleanState to its own result changes
\* nothing.
C9_CleanState ==
  /\ op \in {"cleanState", "cleanStateAgain"} =>
       /\ result[1] =
            [args[1] EXCEPT !.power = IF args[1].mode = "kOff"
                                        THEN FALSE ELSE @]
       /\ (result[1].mode = "kOff" => ~result[1].power)
  /\ op = "cleanStateAgain" => result = args

\* C9 witness: the second application, on a state whose power the first
\* one forced off.
C9_Witness ==
  /\ op = "cleanStateAgain"
  /\ args[1].mode = "kOff" /\ ~args[1].power
  /\ args[1].protocol = "LG" /\ args[1].quiet
  /\ result = args

\* C10: cmpStates(a, b) is true exactly when a and b differ in a field other
\* than clock, and hasStateChanged() is that comparison of next and _prev.
C10_CmpStatesIgnoresClock ==
  /\ op = "cmpStates" =>
       (ret <=> \E f \in Fields \ {"clock"} : args[1][f] # args[2][f])
  /\ op = "hasStateChanged" =>
       (ret <=> \E f \in Fields \ {"clock"} : next[f] # _prev[f])

\* C10 witness: two states that differ in the clock alone compare equal.
C10_Witness ==
  /\ op = "cmpStates"
  /\ args[1].clock # args[2].clock
  /\ ~ret

\* C11: after construction, after markAsSent() and after a sendAc() that
\* returned true, _prev equals next and hasStateChanged() is false; and
\* hasStateChanged() goes from false to true only by an edit of next that
\* changes a field other than clock.
C11_InSyncAfterCommit ==
  /\ [] ( (op \in {"IRac", "markAsSent"} \/ (op = "sendAc" /\ ret))
            => (_prev = next /\ ~hasStateChanged) )
  /\ [][ (~hasStateChanged /\ hasStateChanged')
            => /\ op' = "edit"
               /\ _prev' = _prev
               /\ \E f \in Fields \ {"clock"} : next'[f] # next[f] ]_vars

\* markAsSent() has brought an edited, unsent state back in sync.
C11_Witness ==
  /\ op = "markAsSent"
  /\ next.protocol = "COOLIX" /\ next.power /\ next.clock = 0
  /\ _prev = next /\ ~hasStateChanged

\* The driver was told to toggle the vertical swing.
LgToggleSent ==
  \E i \in DOMAIN calls :
    calls[i][1] = "setSwingV" /\ calls[i][2] = <<"kLgAcSwingVToggle">>

\* The vertical swing of the previous state of a structured sendAc, off
\* when the caller gave none.
PrevSwingv == IF Len(args) = 2 THEN args[2].swingv ELSE "kOff"

\* C12: a sendAc to LG or LG2 sends the swing toggle
\* (setSwingV(kLgAcSwingVToggle)) exactly when the model is LG6711A20083V
\* and the off-ness of desired.swingv differs from that of P, the swingv of
\* prev, or off when prev is NULL.
C12_LgToggleIffOffnessChanges ==
  (op = "sendAcStruct" /\ ret /\ args[1].protocol \in {"LG", "LG2"}) =>
    ( LgToggleSent <=>
        /\ args[1].model = LG6711A20083V
        /\ (args[1].swingv = "kOff") # (PrevSwingv = "kOff") )

\* An LG6711A20083V turning the swing on without a previous state got the
\* toggle.
C12_Witness ==
  /\ op = "sendAcStruct" /\ ret
  /\ args[1].protocol = "LG2" /\ args[1].model = LG6711A20083V
  /\ Len(args) = 1 /\ args[1].swingv = "kHigh"
  /\ LgToggleSent

\* The state the flat arguments f describe: f's 18 values, the command
\* control and the defaults for sensorTemperature and iFeel.
FlatState(f) ==
  [ k \in Fields |-> IF k \in DOMAIN f THEN f[k] ELSE DefaultState[k] ]

\* No call of l tells the driver to toggle the vertical swing.
NoLgToggle(l) ==
  \A i \in DOMAIN l :
    ~(l[i][1] = "setSwingV" /\ l[i][2] = <<"kLgAcSwingVToggle">>)

\* C13: the flat sendAc does what the structured sendAc(S, &S) does, S being
\* built from the arguments with command = control and the defaults for
\* sensorTemperature and iFeel; as its previous state is its desired state
\* it never sends the LG swing toggle.
C13_FlatIsStructuredOnItself ==
  [][ op' = "sendAcFlat" =>
        LET S == FlatState(args[1])
            r == sendAc(S, Ptr(S))
        IN /\ S.command = "kControlCommand"
           /\ args' = <<S, S>>
           /\ ret' = r.ret /\ calls' = r.calls /\ result' = Ptr(r.send)
           /\ NoLgToggle(calls') ]_vars

\* The flat form sent an LG6711A20083V with the swing on, and no toggle.
C13_Witness ==
  /\ op = "sendAcFlat" /\ ret
  /\ args[1].protocol = "LG" /\ args[1].model = LG6711A20083V
  /\ args[1].swingv = "kHigh" /\ args[2] = args[1]
  /\ calls # << >> /\ NoLgToggle(calls)

\* The calls of l that set the vertical swing of the LG driver.
LgSwingCalls(l) ==
  SelectSeq(l, LAMBDA c :
              c[1] \in {"setSwingV", "updateSwingPrev", "setVaneSwingV"})

\* The swing calls IRac::lg is to make for the desired swing d after the
\* previous swing p, the toggle left out.
LgSwingOrder(d, p) ==
  << <<"setSwingV", <<"convertSwingV", p>>>>,
     <<"updateSwingPrev", <<>>>>,
     <<"setSwingV", <<"convertSwingV", d>>>> >>
  \o [ i \in 1..kLgAcSwingVMaxVanes |->
         <<"setVaneSwingV", <<i - 1, <<"convertVaneSwingV", d>>>>>> ]

\* C20: a sendAc of any of the three forms that returns true constructs one
\* driver and calls begin() first, then setters, then send() exactly once
\* and last; one that returns false calls no driver at all.  For LG the
\* swing setters come in the order setSwingV(previous), updateSwingPrev(),
\* setSwingV(desired), every vane, and then the toggle if there is one.
C20_OneSendLast ==
  [][ op' \in SendOps =>
        LET n == Len(calls')
            d == IF op' = "sendAc" THEN next ELSE args'[1]
            p == CASE op' = "sendAc" -> _prev.swingv
                   [] op' = "sendAcStruct" ->
                        IF Len(args') = 2 THEN args'[2].swingv ELSE "kOff"
                   [] op' = "sendAcFlat" -> args'[2].swingv
        IN IF ret'
             THEN /\ n >= 3
                  /\ calls'[1][1] = "begin"
                  /\ calls'[n][1] = "send"
                  /\ \A i \in 2..(n - 1) : calls'[i][1] \notin {"begin", "send"}
                  /\ d.protocol \in {"LG", "LG2"} =>
                       \/ LgSwingCalls(calls') = LgSwingOrder(d.swingv, p)
                       \/ LgSwingCalls(calls') =
                            LgSwingOrder(d.swingv, p)
                              \o << <<"setSwingV", <<"kLgAcSwingVToggle">>>> >>
             ELSE calls' = << >> ]_vars

\* A structured sendAc to LG that sent the toggle, after the vanes and
\* before its one send().
C20_Witness ==
  /\ op = "sendAcStruct" /\ ret /\ args[1].protocol = "LG"
  /\ LgToggleSent
  /\ calls[Len(calls)][1] = "send"

\* The protocols the adapter has a driver for.
DecodeProtocols == {"LG", "LG2", "RHOSS"}

\* The driver was asked whether the frame is valid and answered that it is
\* not.
DriverReportedInvalid ==
  \E i \in DOMAIN calls : calls[i] = <<"isValidLgAc", FALSE>>

C15_TextOnlyForValidFrames ==
  op = "resultAcToString" =>
    LET d == args[1][1]
    IN /\ (d.decode_type \notin DecodeProtocols \/ ~d.valid)
          => result = <<"">>
       /\ result # <<"">>
          => \E i \in DOMAIN calls : calls[i] = <<"isValidLgAc", TRUE>>

\* The synonym tables of the parsers as the specification lists them: for
\* each value its tokens, in the order listed.
Synonyms(kind) ==
  CASE kind = "opmode" ->
         [ kOff |-> <<IRtext.kOffStr, IRtext.kStopStr>>,
           kAuto |-> <<IRtext.kAutoStr, IRtext.kAutomaticStr>>,
           kCool |-> <<IRtext.kCoolStr, IRtext.kCoolingStr>>,
           kHeat |-> <<IRtext.kHeatStr, IRtext.kHeatingStr>>,
           kDry |-> <<IRtext.kDryStr, IRtext.kDryingStr, IRtext.kDehumidifyStr>>,
           kFan |-> <<IRtext.kFanStr, IRtext.kFanOnlyNoSpaceStr, IRtext.kFan_OnlyStr,
                      IRtext.kFanOnlyWithSpaceStr, IRtext.kFanOnlyStr>> ]
    [] kind = "fanspeed" ->
         [ kAuto |-> <<IRtext.kAutoStr, IRtext.kAutomaticStr>>,
           kMin |-> <<IRtext.kMinStr, IRtext.kMinimumStr, IRtext.kLowestStr>>,
           kLow |-> <<IRtext.kLowStr, IRtext.kLoStr>>,
           kMedium |-> <<IRtext.kMedStr, IRtext.kMediumStr, IRtext.kMidStr>>,
           kMediumHigh |-> <<IRtext.kMedHighStr>>,
           kHigh |-> <<IRtext.kHighStr, IRtext.kHiStr>>,
           kMax |-> <<IRtext.kMaxStr, IRtext.kMaximumStr, IRtext.kHighestStr>> ]
    [] kind = "swingv" ->
         [ kAuto |-> <<IRtext.kAutoStr, IRtext.kAutomaticStr, IRtext.kOnStr, IRtext.kSwingStr>>,
           kOff |-> <<IRtext.kOffStr, IRtext.kStopStr>>,
           kLowest |-> <<IRtext.kMinStr, IRtext.kMinimumStr, IRtext.kLowestStr, IRtext.kBottomStr,
                         IRtext.kDownStr>>,
           kLow |-> <<IRtext.kLowStr>>,
           kMiddle |-> <<IRtext.kMidStr, IRtext.kMiddleStr, IRtext.kMedStr, IRtext.kMediumStr,
                         IRtext.kCentreStr>>,
           kUpperMiddle |-> <<IRtext.kUpperMiddleStr>>,
           kHigh |-> <<IRtext.kHighStr, IRtext.kHiStr>>,
           kHighest |-> <<IRtext.kHighestStr, IRtext.kMaxStr, IRtext.kMaximumStr, IRtext.kTopStr,
                          IRtext.kUpStr>> ]
    [] kind = "swingh" ->
         [ kAuto |-> <<IRtext.kAutoStr, IRtext.kAutomaticStr, IRtext.kOnStr, IRtext.kSwingStr>>,
           kOff |-> <<IRtext.kOffStr, IRtext.kStopStr>>,
           kLeftMax |-> <<IRtext.kLeftMaxNoSpaceStr, IRtext.kLeftMaxStr,
                          IRtext.kMaxLeftNoSpaceStr, IRtext.kMaxLeftStr>>,
           kLeft |-> <<IRtext.kLeftStr>>,
           kMiddle |-> <<IRtext.kMidStr, IRtext.kMiddleStr, IRtext.kMedStr, IRtext.kMediumStr,
                         IRtext.kCentreStr>>,
           kRight |-> <<IRtext.kRightStr>>,
           kRightMax |-> <<IRtext.kRightMaxNoSpaceStr, IRtext.kRightMaxStr,
                           IRtext.kMaxRightNoSpaceStr, IRtext.kMaxRightStr>>,
           kWide |-> <<IRtext.kWideStr>> ]
    [] kind = "command" ->
         [ kControlCommand |-> <<IRtext.kControlCommandStr>>,
           kSensorTempReport |-> <<IRtext.kIFeelReportStr, IRtext.kIFeelStr>>,
           kTimerCommand |-> <<IRtext.kSetTimerCommandStr, IRtext.kTimerStr>>,
           kConfigCommand |-> <<IRtext.kConfigCommandStr>> ]
    [] kind = "bool" ->
         [ b \in BOOLEAN |->
             IF b THEN <<IRtext.kOnStr, IRtext.k1Str, IRtext.kYesStr, IRtext.kTrueStr>>
                  ELSE <<IRtext.kOffStr, IRtext.k0Str, IRtext.kNoStr, IRtext.kFalseStr>> ]

\* The strings a and b differ in the case of their letters at most.
SameButCase(a, b) ==
  /\ Len(a) = Len(b)
  /\ \A i \in DOMAIN a :
       \/ a[i] = b[i]
       \/ \E j \in DOMAIN UpperCase :
            {a[i], b[i]} = {UpperCase[j], LowerCase[j]}

\* The values of a kind that have str, in some letter case, as a synonym.
ValuesNamed(kind, str) ==
  { v \in DOMAIN Synonyms(kind) :
      \E i \in DOMAIN Synonyms(kind)[v] :
        SameButCase(str, Synonyms(kind)[v][i]) }

\* C16: a parser given a listed synonym, in any letter case, returns the
\* value of that synonym whatever the default is; given a string that is
\* no synonym it returns the default.
C16_ParsersFollowSynonymTables ==
  op = "strTo" =>
    IF ValuesNamed(args[1], args[2]) # {}
      THEN ValuesNamed(args[1], args[2]) = {result[1]}
      ELSE result[1] = args[3]

\* strToSwingH was given "max Left" with the default off and returned
\* left-max.
C16_Witness ==
  /\ op = "strTo" /\ args[1] = "swingh"
  /\ args[2] # IRtext.kMaxLeftStr /\ SameButCase(args[2], IRtext.kMaxLeftStr)
  /\ args[3] = "kOff"
  /\ result = <<"kLeftMax">>

\* C17: parsing what a value renders as gives the value back, whatever
\* default other than the value the parser is given: for opmode (the
\* home-automation rendering of fan included), fanspeed, swingv, swingh,
\* command and boolean.
C17_RoundTrip ==
  op = "roundTrip" => (args[4] # args[2] /\ result[1] = args[2])

\* The home-automation rendering of the mode fan was parsed back to fan.
C17_Witness ==
  /\ op = "roundTrip"
  /\ args[1] = "opmode" /\ args[2] = "kFan" /\ args[3]
  /\ args[4] = "kAuto"
  /\ result = <<"kFan">>

\* C18 as stated: a renderer returns the first synonym listed for the
\* value, in some letter case (the home-automation rendering of fan set
\* aside).
C18_RendersFirstSynonym ==
  (op = "toString" /\ ~(args[1] = "opmode" /\ args[3])) =>
    SameButCase(result[1], Synonyms(args[1])[args[2]][1])

\* The synonym a value renders as: the first one listed, but for the
\* values the renderers spell out in full.
Canonical(kind, value, ha) ==
  CASE kind = "fanspeed" /\ value = "kMedium" -> IRtext.kMediumStr
    [] kind = "swingv" /\ value = "kLowest" -> IRtext.kLowestStr
    [] kind \in {"swingv", "swingh"} /\ value = "kMiddle" -> IRtext.kMiddleStr
    [] kind = "swingh" /\ value = "kLeftMax" -> IRtext.kLeftMaxStr
    [] kind = "swingh" /\ value = "kRightMax" -> IRtext.kRightMaxStr
    [] kind = "opmode" /\ value = "kFan" /\ ha -> IRtext.kFan_OnlyStr
    [] OTHER -> Synonyms(kind)[value][1]

\* C18: a renderer returns one fixed synonym of the value: the first one
\* listed, except that fanspeed medium renders as "medium", swingv lowest
\* as "lowest", swingv and swingh middle as "middle", swingh left-max as
\* "left max" and right-max as "right max", and that the home-automation
\* rendering of the mode fan is "fan_only".
C18_RendersCanonicalSynonym ==
  op = "toString" =>
    /\ SameButCase(result[1], Canonical(args[1], args[2], args[3]))
    /\ \E i \in DOMAIN Synonyms(args[1])[args[2]] :
         result[1] = Synonyms(args[1])[args[2]][i]

\* The fan speed medium was rendered, and not as the first synonym listed
\* for it.
C18_Witness ==
  /\ op = "toString" /\ args[1] = "fanspeed" /\ args[2] = "kMedium"
  /\ result = <<IRtext.kMediumStr>>
  /\ ~SameButCase(result[1], IRtext.kMedStr)

\* The string is the decimal form of a positive integer.
IsPositiveDecimal(str) ==
  /\ str # << >>
  /\ \A i \in DOMAIN str : isdigit(str[i])
  /\ str[1] # "0"

\* The number a string of digits denotes.
RECURSIVE DecimalValue(_)
DecimalValue(str) ==
  IF str = << >> THEN 0
  ELSE 10 * DecimalValue(SubSeq(str, 1, Len(str) - 1))
         + digitValue(str[Len(str)])

\* The string is, in some letter case, a model codename.
IsCodename(str) == \E s \in ModelStrings : SameButCase(str, s)

\* C19: given a string that is no model codename, strToModel returns n when
\* the string is the decimal form of a positive integer n, also of one
\* above 32767, and the default otherwise.
C19_NumberVerbatim ==
  (op = "strToModel" /\ ~IsCodename(args[1])) =>
    IF IsPositiveDecimal(args[1])
      THEN result[1] = DecimalValue(args[1])
      ELSE result[1] = args[2]

\* The rewrite list of each protocol: its toggled booleans, swingv where the
\* swingv rule applies, sleep for COOLIX and TRANSCOLD.
RewriteList(protocol, model) ==
  ToggledFields(protocol, model)
    \cup (IF protocol \in SwingvRuleProtocols THEN {"swingv"} ELSE {})
    \cup (IF protocol \in {"COOLIX", "TRANSCOLD"} THEN {"sleep"} ELSE {})

\* C21: for desired d and previous p of the same protocol and model, every
\* field of handleToggles(d, &p) outside the protocol's rewrite list equals
\* the same field of d, and is the same whatever p holds (here: the same as
\* with d itself as the previous state); so MIRAGE of a model other than
\* KKG29AC1 keeps d.light, PANASONIC_AC of a model other than Ckp keeps
\* d.power, and a protocol without a rule gives d back in every field.
C21_FrameOfHandleToggles ==
  TogApplies =>
    /\ \A f \in Fields \ RewriteList(TogD.protocol, TogD.model) :
         /\ result[1][f] = TogD[f]
         /\ result[1][f] = handleToggles(TogD, Ptr(TogD))[f]
    /\ (TogD.protocol = "MIRAGE" /\ TogD.model # KKG29AC1
          => result[1].light = TogD.light)
    /\ (TogD.protocol = "PANASONIC_AC" /\ TogD.model # kPanasonicCkp
          => result[1].power = TogD.power)
    /\ (TogD.protocol \in {"LG", "LG2", "RHOSS"} => result[1] = TogD)

\* C21 witness: MIRAGE of a model other than KKG29AC1, light set in desired
\* and clear in the previous state, comes out with light still set while
\* clean, set only in the previous state, is toggled.
C21_Witness ==
  /\ TogApplies
  /\ TogD.protocol = "MIRAGE" /\ TogD.model # KKG29AC1
  /\ TogD.light /\ ~TogP.light /\ result[1].light
  /\ ~TogD.clean /\ TogP.clean /\ result[1].clean
  /\ TogD.quiet # TogP.quiet /\ result[1].quiet = TogD.quiet

\* C22: for COOLIX and TRANSCOLD with desired d and previous p of the same
\* protocol and model, the resolved sleep is 0 when exactly one of
\* d.sleep >= 0 and p.sleep >= 0 holds and -1 otherwise, whatever minutes
\* the two states carry.
C22_SleepToggle ==
  TogApplies /\ TogD.protocol \in {"COOLIX", "TRANSCOLD"} =>
    /\ result[1].sleep \in {0, -1}
    /\ (result[1].sleep = 0 <=> ((TogD.sleep >= 0) # (TogP.sleep >= 0)))

\* C22 witness: COOLIX with a positive sleep time in both states resolves to
\* -1, neither state's minutes surviving.
C22_Witness ==
  /\ TogApplies
  /\ TogD.protocol = "COOLIX"
  /\ TogD.sleep > 0 /\ TogP.sleep > 0
  /\ result[1].sleep = -1

\* C23: a structured or a flat sendAc changes neither next nor _prev,
\* whatever it returns; a no-argument sendAc() that returned false leaves
\* the previous state it was given as it was; _prev changes only in a
\* no-argument sendAc() or a markAsSent(); next changes in no operation of
\* the dispatcher, only when a client writes the field.
C23_SendsLeaveDispatcherState ==
  [][ /\ (op' \in {"sendAcStruct", "sendAcFlat"} =>
            next' = next /\ _prev' = _prev)
      /\ (op' = "sendAc" /\ ~ret' => _prev' = _prev)
      /\ (_prev' # _prev => op' \in {"sendAc", "markAsSent"})
      /\ (op' # "edit" => next' = next) ]_vars

\* C23 witness: a flat sendAc has just returned true for a state that is
\* neither next nor _prev, with next not yet marked as sent.
C23_Witness ==
  /\ op = "sendAcFlat" /\ ret
  /\ args[1] # next /\ args[1] # _prev
  /\ next # _prev

====
